---------------------------- MODULE Spec2Model ----------------------------
(***************************************************************************)
(* A model of timespan's generic Span<T> (src/src/span.rs): the validated  *)
(* constructor, the set algebra (difference, symmetric_difference,         *)
(* intersection, union, split_off), the queries (duration, contains,       *)
(* is_disjoint, is_subset, is_superset), the four displacement operations  *)
(* (append, prepend, pop, shift), under Spec; the template parser          *)
(* Span::parse_from_str, under SpecParse; the default text form (Display   *)
(* and FromStr), under SpecFromStr; Span::format and the rendering of a    *)
(* DelayedFormat (src/src/delayed_format.rs), under SpecFormat; and the    *)
(* former Timespan (src/src/timespan.rs), under SpecTimespan and, for its  *)
(* text forms, beside those of Span.                                       *)
(*                                                                         *)
(* The Spanable type T is chrono's NaiveTime, the point type of            *)
(* NaiveTimeSpan and of the unit tests.  A point is a time of day as       *)
(* NaiveTime holds it: secs, the whole seconds 0 .. Day - 1 since          *)
(* midnight, and frac, the nanoseconds 0 .. 999999999 of the second begun, *)
(* or 1000000000 .. 1999999999 within a leap second (written as second 60  *)
(* after the 59th second of a minute).  Points are ordered by secs, then   *)
(* by frac.  A chrono Duration is a number of whole seconds secs, of       *)
(* either sign, and a number of nanoseconds nanos, 0 .. 999999999, added   *)
(* to them.  T's Add<Duration> and Sub<Duration> wrap around midnight, as  *)
(* NaiveTime's do; signed_duration_since does not wrap.                    *)
(*                                                                         *)
(* A string is a sequence of characters, each a one-character string; a    *)
(* character that a string of this module cannot hold, and every character *)
(* beyond ASCII, is written by its code point, as in "U+00E9".             *)
(*                                                                         *)
(* A Rust Result is a record [ok, err, val]: Ok(v) carries the returned    *)
(* Spans as the sequence val (<<>> for Ok(())), Err(e) carries the name of *)
(* the Error variant in err.                                               *)
(***************************************************************************)
EXTENDS Integers, Sequences, FiniteSets

(* the seconds of a day: NaiveTime counts modulo one day *)
Day == 86400

(* the nanoseconds of a second *)
NANOS_PER_SEC == 1000000000

(* Bounds of the model: durations are -MaxDur..MaxDur seconds, and the     *)
(* Spans of Spec lie in the seconds 0..MaxEarly after midnight and the     *)
(* MaxLate seconds before it.                                              *)
MaxDur == 3
MaxEarly == 2
MaxLate == 1

(* struct NaiveTime { secs, frac } *)
NaiveTime(secs, frac) == [secs |-> secs, frac |-> frac]

(* NaiveTime::from_hms *)
from_hms(hour, min, sec) == NaiveTime(hour * 3600 + min * 60 + sec, 0)

(* struct Duration (chrono's TimeDelta) { secs, nanos } *)
Duration(secs, nanos) == [secs |-> secs, nanos |-> nanos]

(* Duration::seconds *)
seconds(n) == Duration(n, 0)

(* the points that are written as text: 00:00:00, 00:00:01.000000001,      *)
(* 01:00:00, 10:30:00.5, 12:00:00.000250, 13:30:00, 23:59:59, and the leap *)
(* second 23:59:60                                                         *)
Points ==
    {from_hms(0, 0, 0), NaiveTime(1, 1), from_hms(1, 0, 0), NaiveTime(37800, 500000000),
     NaiveTime(43200, 250000), from_hms(13, 30, 0), from_hms(23, 59, 59),
     NaiveTime(86399, NANOS_PER_SEC)}

Durations == {seconds(n) : n \in (0 - MaxDur) .. MaxDur}

(* the times of day the programs of Spec and SpecTimespan use *)
Clock ==
    {NaiveTime(secs, 0) : secs \in (0 .. MaxEarly) \cup ((Day - MaxLate) .. (Day - 1))}

(* The times of day the properties look at: those of Clock and noon, which *)
(* stands for the times between the early and the late ones.  The          *)
(* operations compare points with the ends of Spans only, and these are in *)
(* Clock: what holds of noon holds of every time between.                  *)
Times == Clock \cup {from_hms(12, 0, 0)}

VARIABLES
    s1,     \* a Span the program holds: the receiver of the &mut self operations
    s2,     \* a second Span the program holds
    call    \* the last call made: operation, operands as they were, arguments, result

vars == <<s1, s2, call>>

(***************************************************************************)
(* Values                                                                  *)
(***************************************************************************)
Span(start, end) == [start |-> start, end |-> end]

Ok(v) == [ok |-> TRUE, err |-> "None", val |-> v]

Err(e) == [ok |-> FALSE, err |-> e, val |-> <<>>]

(* The value of an operation that returns no Result (a bool, a Duration).  *)
Value(v) == [ok |-> TRUE, err |-> "None", val |-> <<>>, ret |-> v]

(* The order of T (#[derive(PartialOrd, Ord)] of NaiveTime): by secs, then *)
(* by frac.                                                                *)
lt(a, b) == a.secs < b.secs \/ (a.secs = b.secs /\ a.frac < b.frac)

a \prec b == lt(a, b)

a \preceq b == a = b \/ lt(a, b)

a \succ b == lt(b, a)

a \succeq b == a = b \/ lt(b, a)

(* Neg for Duration *)
Neg(d) ==
    IF d.nanos = 0
    THEN Duration(0 - d.secs, 0)
    ELSE Duration(0 - d.secs - 1, NANOS_PER_SEC - d.nanos)

(* T's Add<Duration>: NaiveTime::overflowing_add_signed without the days   *)
(* passed.  The duration is taken as whole seconds and a fraction of its   *)
(* sign; a point within a leap second stays in it unless the duration      *)
(* leads out of it, and then the leap second is dropped first; the seconds *)
(* wrap around midnight.                                                   *)
PointAdd(p, d) ==
    LET secs_to_add == IF d.secs < 0 /\ d.nanos > 0 THEN d.secs + 1 ELSE d.secs
        frac_to_add == IF d.secs < 0 /\ d.nanos > 0 THEN d.nanos - NANOS_PER_SEC ELSE d.nanos
        Carry(secs, frac) ==
            IF frac < 0
            THEN NaiveTime((secs - 1) % Day, frac + NANOS_PER_SEC)
            ELSE IF frac >= NANOS_PER_SEC
            THEN NaiveTime((secs + 1) % Day, frac - NANOS_PER_SEC)
            ELSE NaiveTime(secs % Day, frac)
    IN  IF p.frac < NANOS_PER_SEC
        THEN Carry(p.secs + secs_to_add, p.frac + frac_to_add)
        ELSE IF secs_to_add > 0 \/ (frac_to_add > 0 /\ p.frac >= 2 * NANOS_PER_SEC - frac_to_add)
        THEN Carry(p.secs + secs_to_add, p.frac - NANOS_PER_SEC + frac_to_add)
        ELSE IF secs_to_add < 0
        THEN Carry(p.secs + 1 + secs_to_add, p.frac - NANOS_PER_SEC + frac_to_add)
        ELSE NaiveTime(p.secs, p.frac + frac_to_add)

(* T's Sub<Duration>: the sum with the negated duration *)
PointSub(p, d) == PointAdd(p, Neg(d))

(* T::signed_duration_since: the seconds and the fractions are subtracted, *)
(* and a leap second that the earlier point is in is counted               *)
SignedDurationSince(p, q) ==
    LET leap == IF p.secs > q.secs /\ q.frac >= NANOS_PER_SEC
                THEN 1
                ELSE IF p.secs < q.secs /\ p.frac >= NANOS_PER_SEC
                THEN 0 - 1
                ELSE 0
        frac == p.frac - q.frac
    IN  Duration(p.secs - q.secs + leap + (frac \div NANOS_PER_SEC), frac % NANOS_PER_SEC)

(* std::cmp::max and std::cmp::min on points *)
Max(x, y) == IF y \succeq x THEN y ELSE x

Min(x, y) == IF x \preceq y THEN x ELSE y

(***************************************************************************)
(* Span<T>: the operations, as functions of their operands                 *)
(***************************************************************************)
(* duration measured from end to start. *)
duration_reversed(self) ==
    SignedDurationSince(self.start, self.end)

duration(self) ==
    SignedDurationSince(self.end, self.start)

(* Span::new with the ordering test relaxed to start \succ end. *)
new_allows_equal(start, end) ==
    IF start \succ end
    THEN Err("Ordering")
    ELSE Ok(<<Span(start, end)>>)

new(start, end) ==
    IF start \succeq end
    THEN Err("Ordering")
    ELSE Ok(<<Span(start, end)>>)

(* difference with strict bounds in its first (Empty) branch. *)
difference_strict_inside(self, other) ==
    IF self.start \succ other.start /\ self.end \prec other.end
    THEN Err("Empty")
    ELSE IF self.end \preceq other.start
    THEN Ok(<<self>>)
    ELSE IF self.start \succeq other.end
    THEN Ok(<<self>>)
    ELSE IF self.end \succ other.start /\ self.end \preceq other.end /\ self.start \prec other.start
    THEN Ok(<<Span(self.start, other.start)>>)
    ELSE IF self.start \succeq other.start /\ self.start \prec other.end /\ self.end \succ other.end
    THEN Ok(<<Span(other.end, self.end)>>)
    ELSE Err("NotContinuous")

(* difference whose last Ok branch requires self.start \succ other.start. *)
difference_strict_start(self, other) ==
    IF self.start \succeq other.start /\ self.end \preceq other.end
    THEN Err("Empty")
    ELSE IF self.end \preceq other.start
    THEN Ok(<<self>>)
    ELSE IF self.start \succeq other.end
    THEN Ok(<<self>>)
    ELSE IF self.end \succ other.start /\ self.end \preceq other.end /\ self.start \prec other.start
    THEN Ok(<<Span(self.start, other.start)>>)
    ELSE IF self.start \succ other.start /\ self.start \prec other.end /\ self.end \succ other.end
    THEN Ok(<<Span(other.end, self.end)>>)
    ELSE Err("NotContinuous")

(* difference whose fourth branch returns self with the overlap left in. *)
difference_keeps_overlap(self, other) ==
    IF self.start \succeq other.start /\ self.end \preceq other.end
    THEN Err("Empty")
    ELSE IF self.end \preceq other.start
    THEN Ok(<<self>>)
    ELSE IF self.start \succeq other.end
    THEN Ok(<<self>>)
    ELSE IF self.end \succ other.start /\ self.end \preceq other.end /\ self.start \prec other.start
    THEN Ok(<<Span(self.start, self.end)>>)
    ELSE IF self.start \succeq other.start /\ self.start \prec other.end /\ self.end \succ other.end
    THEN Ok(<<Span(other.end, self.end)>>)
    ELSE Err("NotContinuous")

difference(self, other) ==
    IF self.start \succeq other.start /\ self.end \preceq other.end
    THEN Err("Empty")
    ELSE IF self.end \preceq other.start
    THEN Ok(<<self>>)
    ELSE IF self.start \succeq other.end
    THEN Ok(<<self>>)
    ELSE IF self.end \succ other.start /\ self.end \preceq other.end /\ self.start \prec other.start
    THEN Ok(<<Span(self.start, other.start)>>)
    ELSE IF self.start \succeq other.start /\ self.start \prec other.end /\ self.end \succ other.end
    THEN Ok(<<Span(other.end, self.end)>>)
    ELSE Err("NotContinuous")

(* symmetric_difference whose second branch repeats the first branch's Span. *)
symmetric_difference_copied(self, other) ==
    IF self.end = other.start
    THEN Ok(<<Span(self.start, other.end)>>)
    ELSE IF other.end = self.start
    THEN Ok(<<Span(self.start, other.end)>>)
    ELSE Err("NotContinuous")

symmetric_difference(self, other) ==
    IF self.end = other.start
    THEN Ok(<<Span(self.start, other.end)>>)
    ELSE IF other.end = self.start
    THEN Ok(<<Span(other.start, self.end)>>)
    ELSE Err("NotContinuous")

(* intersection reporting a gap as NotContinuous and only touching as Empty. *)
intersection_two_kinds(self, other) ==
    IF self.end = other.start \/ other.end = self.start
    THEN Err("Empty")
    ELSE IF self.end \prec other.start \/ other.end \prec self.start
    THEN Err("NotContinuous")
    ELSE Ok(<<Span(Max(self.start, other.start), Min(self.end, other.end))>>)

(* intersection with the disjointness test relaxed to strict comparisons. *)
intersection_strict(self, other) ==
    IF self.end \prec other.start \/ other.end \prec self.start
    THEN Err("Empty")
    ELSE Ok(<<Span(Max(self.start, other.start), Min(self.end, other.end))>>)

(* intersection that keeps self's end instead of the smaller end. *)
intersection_self_end(self, other) ==
    IF self.end \preceq other.start \/ other.end \preceq self.start
    THEN Err("Empty")
    ELSE Ok(<<Span(Max(self.start, other.start), self.end)>>)

intersection(self, other) ==
    IF self.end \preceq other.start \/ other.end \preceq self.start
    THEN Err("Empty")
    ELSE Ok(<<Span(Max(self.start, other.start), Min(self.end, other.end))>>)

(* union that also rejects Spans touching at an endpoint. *)
union_rejects_touching(self, other) ==
    IF self.end \preceq other.start \/ other.end \preceq self.start
    THEN Err("NotContinuous")
    ELSE Ok(<<Span(Min(self.start, other.start), Max(self.end, other.end))>>)

union(self, other) ==
    IF self.end \prec other.start \/ other.end \prec self.start
    THEN Err("NotContinuous")
    ELSE Ok(<<Span(Min(self.start, other.start), Max(self.end, other.end))>>)

(* contains with the end point excluded. *)
contains_excludes_end(self, item) ==
    self.start \preceq item /\ self.end \succ item

contains(self, item) ==
    self.start \preceq item /\ self.end \succeq item

(* is_disjoint with strict comparisons, so touching Spans are not disjoint. *)
is_disjoint_strict(self, other) ==
    self.end \prec other.start \/ self.start \succ other.end

(* is_disjoint that compares the starts, so a Span that begins inside      *)
(* other is reported disjoint from it.                                     *)
is_disjoint_by_start(self, other) ==
    self.end \preceq other.start \/ self.start \succeq other.start

is_disjoint(self, other) ==
    self.end \preceq other.start \/ self.start \succeq other.end

is_subset(self, other) ==
    self.start \succeq other.start /\ self.end \preceq other.end

(* is_superset with strict comparisons. *)
is_superset_strict(self, other) ==
    self.start \prec other.start /\ self.end \succ other.end

is_superset(self, other) ==
    self.start \preceq other.start /\ self.end \succeq other.end

(* split_off that accepts the end points of the Span. *)
split_off_accepts_bounds(self, at) ==
    IF self.start \succ at \/ self.end \prec at
    THEN Err("OutOfRange")
    ELSE Ok(<<Span(self.start, at), Span(at, self.end)>>)

split_off(self, at) ==
    IF self.start \succeq at \/ self.end \preceq at
    THEN Err("OutOfRange")
    ELSE Ok(<<Span(self.start, at), Span(at, self.end)>>)

(* append that stores the new end before testing it. *)
append_early_store(self, time) ==
    LET n == PointAdd(self.end, time)
    IN  IF n \preceq self.start
        THEN [res |-> Err("Empty"), self |-> Span(self.start, n)]
        ELSE [res |-> Ok(<<>>), self |-> Span(self.start, n)]

(* prepend without the emptiness test. *)
prepend_unchecked(self, time) ==
    [res |-> Ok(<<>>), self |-> Span(PointSub(self.start, time), self.end)]

(* pop that rejects only n \prec start, so a zero-width Span is committed. *)
pop_allows_equal(self, time) ==
    LET n == PointSub(self.end, time)
    IN  IF n \prec self.start
        THEN [res |-> Err("Empty"), self |-> self]
        ELSE [res |-> Ok(<<>>), self |-> Span(self.start, n)]

(* shift that moves the start backwards, as prepend does. *)
shift_backward(self, time) ==
    LET n == PointSub(self.start, time)
    IN  IF n \succeq self.end
        THEN [res |-> Err("Empty"), self |-> self]
        ELSE [res |-> Ok(<<>>), self |-> Span(n, self.end)]

(* The &mut self operations return the Result and the Span left in place.  *)
append(self, time) ==
    LET n == PointAdd(self.end, time)
    IN  IF n \preceq self.start
        THEN [res |-> Err("Empty"), self |-> self]
        ELSE [res |-> Ok(<<>>), self |-> Span(self.start, n)]

prepend(self, time) ==
    LET n == PointSub(self.start, time)
    IN  IF n \succeq self.end
        THEN [res |-> Err("Empty"), self |-> self]
        ELSE [res |-> Ok(<<>>), self |-> Span(n, self.end)]

pop(self, time) ==
    LET n == PointSub(self.end, time)
    IN  IF n \preceq self.start
        THEN [res |-> Err("Empty"), self |-> self]
        ELSE [res |-> Ok(<<>>), self |-> Span(self.start, n)]

shift(self, time) ==
    LET n == PointAdd(self.start, time)
    IN  IF n \succeq self.end
        THEN [res |-> Err("Empty"), self |-> self]
        ELSE [res |-> Ok(<<>>), self |-> Span(n, self.end)]
(***************************************************************************)
(* The state machine: a program holding two Spans and calling the API      *)
(***************************************************************************)
NoSpan == Span(NaiveTime(0, 0), NaiveTime(0, 0))

CallRec(op, self, other, args, res) ==
    [op |-> op, self |-> self, other |-> other, args |-> args, res |-> res]

InRange(sp) == sp.start \in Clock /\ sp.end \in Clock

(* Both Spans are built by Span::new. *)
Init ==
    /\ \E p \in Clock, q \in Clock :
          /\ new(p, q).ok
          /\ s1 = new(p, q).val[1]
    /\ \E p \in Clock, q \in Clock :
          /\ new(p, q).ok
          /\ s2 = new(p, q).val[1]
    /\ call = CallRec("none", NoSpan, NoSpan, <<>>, Ok(<<>>))

(* let s = Span::new(p, q)?  -- an Ok result replaces one of the held Spans *)
NewCall ==
    \E p \in Clock, q \in Clock, first \in BOOLEAN :
        LET r == new(p, q)
        IN  /\ call' = CallRec("new", NoSpan, NoSpan, <<p, q>>, r)
            /\ s1' = IF r.ok /\ first THEN r.val[1] ELSE s1
            /\ s2' = IF r.ok /\ ~first THEN r.val[1] ELSE s2

(* The caller of a &self operation may keep the returned Span in place of  *)
(* one of those it holds, so that results become operands of later calls.  *)
Keep(op, self, other, args, r) ==
    \E dst \in {"drop", "s1", "s2"} :
        /\ call' = CallRec(op, self, other, args, r)
        /\ s1' = IF r.ok /\ dst = "s1" THEN r.val[1] ELSE s1
        /\ s2' = IF r.ok /\ dst = "s2" THEN r.val[Len(r.val)] ELSE s2

Operands == {<<s1, s2>>, <<s2, s1>>}

DifferenceCall ==
    \E o \in Operands : Keep("difference", o[1], o[2], <<>>, difference(o[1], o[2]))

SymmetricDifferenceCall ==
    \E o \in Operands :
        Keep("symmetric_difference", o[1], o[2], <<>>, symmetric_difference(o[1], o[2]))

IntersectionCall ==
    \E o \in Operands : Keep("intersection", o[1], o[2], <<>>, intersection(o[1], o[2]))

UnionCall ==
    \E o \in Operands : Keep("union", o[1], o[2], <<>>, union(o[1], o[2]))

SplitOffCall ==
    \E at \in Clock :
        Keep("split_off", s1, NoSpan, <<at>>, split_off(s1, at))

(* A &self operation that returns a plain value and changes nothing. *)
Query(op, self, other, args, v) ==
    /\ call' = CallRec(op, self, other, args, Value(v))
    /\ s1' = s1
    /\ s2' = s2

DurationCall ==
    \E o \in Operands : Query("duration", o[1], NoSpan, <<>>, duration(o[1]))

ContainsCall ==
    \E o \in Operands, item \in Clock :
        Query("contains", o[1], NoSpan, <<item>>, contains(o[1], item))

IsDisjointCall ==
    \E o \in Operands : Query("is_disjoint", o[1], o[2], <<>>, is_disjoint(o[1], o[2]))

IsSubsetCall ==
    \E o \in Operands : Query("is_subset", o[1], o[2], <<>>, is_subset(o[1], o[2]))

IsSupersetCall ==
    \E o \in Operands : Query("is_superset", o[1], o[2], <<>>, is_superset(o[1], o[2]))

(* A &mut self operation on s1; the Span stays within the model's Clock.   *)
Mutate(op, time, r) ==
    /\ InRange(r.self)
    /\ call' = CallRec(op, s1, NoSpan, <<time>>, r.res)
    /\ s1' = r.self
    /\ s2' = s2

AppendCall == \E time \in Durations : Mutate("append", time, append(s1, time))

PrependCall == \E time \in Durations : Mutate("prepend", time, prepend(s1, time))

PopCall == \E time \in Durations : Mutate("pop", time, pop(s1, time))

ShiftCall == \E time \in Durations : Mutate("shift", time, shift(s1, time))

Next ==
    \/ NewCall
    \/ DifferenceCall
    \/ SymmetricDifferenceCall
    \/ IntersectionCall
    \/ UnionCall
    \/ SplitOffCall
    \/ AppendCall
    \/ PrependCall
    \/ PopCall
    \/ ShiftCall
    \/ DurationCall
    \/ ContainsCall
    \/ IsDisjointCall
    \/ IsSubsetCall
    \/ IsSupersetCall

Spec == Init /\ [][Next]_vars
(***************************************************************************)
(* The former, NaiveTime-only Timespan (src/src/timespan.rs), under        *)
(* SpecTimespan: a program holding two Timespans built by Timespan::new    *)
(* and calling the set algebra, the queries and the displacement           *)
(* operations of Timespan.                                                 *)
(***************************************************************************)
Timespan(start, end) == [start |-> start, end |-> end]

Timespan_new(start, end) ==
    IF start \succeq end
    THEN Err("Ordering")
    ELSE Ok(<<Timespan(start, end)>>)

Timespan_duration(self) == SignedDurationSince(self.end, self.start)

Timespan_difference(self, other) ==
    IF self.start \succeq other.start /\ self.end \preceq other.end
    THEN Err("Empty")
    ELSE IF self.end \preceq other.start
    THEN Ok(<<self>>)
    ELSE IF self.start \succeq other.end
    THEN Ok(<<self>>)
    ELSE IF self.end \succ other.start /\ self.end \preceq other.end /\ self.start \prec other.start
    THEN Ok(<<Timespan(self.start, other.start)>>)
    ELSE IF self.start \succeq other.start /\ self.start \prec other.end /\ self.end \succ other.end
    THEN Ok(<<Timespan(other.end, self.end)>>)
    ELSE Err("NotContinuous")

Timespan_symmetric_difference(self, other) ==
    IF self.end = other.start
    THEN Ok(<<Timespan(self.start, other.end)>>)
    ELSE IF other.end = self.start
    THEN Ok(<<Timespan(other.start, self.end)>>)
    ELSE Err("NotContinuous")

Timespan_intersection(self, other) ==
    IF self.end = other.start
    THEN Err("Empty")
    ELSE IF self.end \prec other.start \/ other.end \prec self.start
    THEN Err("NotContinuous")
    ELSE Ok(<<Timespan(Max(self.start, other.start), Min(self.end, other.end))>>)

Timespan_union(self, other) ==
    IF self.end \prec other.start \/ other.end \prec self.start
    THEN Err("NotContinuous")
    ELSE Ok(<<Timespan(Min(self.start, other.start), Max(self.end, other.end))>>)

Timespan_contains(self, item) == self.start \preceq item /\ self.end \succeq item

Timespan_is_disjoint(self, other) ==
    self.end \preceq other.start \/ self.start \succeq other.end

Timespan_is_subset(self, other) ==
    self.start \succeq other.start /\ self.end \preceq other.end

Timespan_is_superset(self, other) ==
    self.start \preceq other.start /\ self.end \succeq other.end

Timespan_split_off(self, at) ==
    IF self.start \succeq at \/ self.end \preceq at
    THEN Err("OutOfRange")
    ELSE Ok(<<Timespan(self.start, at), Timespan(at, self.end)>>)

Timespan_append(self, time) ==
    LET n == PointAdd(self.end, time)
    IN  IF n \preceq self.start
        THEN [res |-> Err("Empty"), self |-> self]
        ELSE [res |-> Ok(<<>>), self |-> Timespan(self.start, n)]

Timespan_prepend(self, time) ==
    LET n == PointSub(self.start, time)
    IN  IF n \succeq self.end
        THEN [res |-> Err("Empty"), self |-> self]
        ELSE [res |-> Ok(<<>>), self |-> Timespan(n, self.end)]

Timespan_pop(self, time) ==
    LET n == PointSub(self.end, time)
    IN  IF n \preceq self.start
        THEN [res |-> Err("Empty"), self |-> self]
        ELSE [res |-> Ok(<<>>), self |-> Timespan(self.start, n)]

Timespan_shift(self, time) ==
    LET n == PointAdd(self.start, time)
    IN  IF n \succeq self.end
        THEN [res |-> Err("Empty"), self |-> self]
        ELSE [res |-> Ok(<<>>), self |-> Timespan(n, self.end)]
InitTimespan ==
    /\ \E p \in Clock, q \in Clock :
          /\ Timespan_new(p, q).ok
          /\ s1 = Timespan_new(p, q).val[1]
    /\ \E p \in Clock, q \in Clock :
          /\ Timespan_new(p, q).ok
          /\ s2 = Timespan_new(p, q).val[1]
    /\ call = CallRec("none", NoSpan, NoSpan, <<>>, Ok(<<>>))

(* let t = Timespan::new(p, q)?  -- an Ok result replaces a held Timespan *)
TimespanNewCall ==
    \E p \in Clock, q \in Clock, first \in BOOLEAN :
        LET r == Timespan_new(p, q)
        IN  /\ call' = CallRec("Timespan::new", NoSpan, NoSpan, <<p, q>>, r)
            /\ s1' = IF r.ok /\ first THEN r.val[1] ELSE s1
            /\ s2' = IF r.ok /\ ~first THEN r.val[1] ELSE s2

(* The &self operations on the two held Timespans, in either order; the    *)
(* caller may keep what they return.                                       *)
TimespanDifferenceCall ==
    \E o \in Operands :
        Keep("Timespan::difference", o[1], o[2], <<>>, Timespan_difference(o[1], o[2]))

TimespanSymmetricDifferenceCall ==
    \E o \in Operands :
        Keep("Timespan::symmetric_difference", o[1], o[2], <<>>,
             Timespan_symmetric_difference(o[1], o[2]))

TimespanIntersectionCall ==
    \E o \in Operands :
        Keep("Timespan::intersection", o[1], o[2], <<>>, Timespan_intersection(o[1], o[2]))

TimespanUnionCall ==
    \E o \in Operands :
        Keep("Timespan::union", o[1], o[2], <<>>, Timespan_union(o[1], o[2]))

TimespanSplitOffCall ==
    \E at \in Clock :
        Keep("Timespan::split_off", s1, NoSpan, <<at>>, Timespan_split_off(s1, at))

TimespanDurationCall ==
    \E o \in Operands :
        Query("Timespan::duration", o[1], NoSpan, <<>>, Timespan_duration(o[1]))

TimespanContainsCall ==
    \E o \in Operands, item \in Clock :
        Query("Timespan::contains", o[1], NoSpan, <<item>>, Timespan_contains(o[1], item))

TimespanIsDisjointCall ==
    \E o \in Operands :
        Query("Timespan::is_disjoint", o[1], o[2], <<>>, Timespan_is_disjoint(o[1], o[2]))

TimespanIsSubsetCall ==
    \E o \in Operands :
        Query("Timespan::is_subset", o[1], o[2], <<>>, Timespan_is_subset(o[1], o[2]))

TimespanIsSupersetCall ==
    \E o \in Operands :
        Query("Timespan::is_superset", o[1], o[2], <<>>, Timespan_is_superset(o[1], o[2]))

TimespanAppendCall ==
    \E time \in Durations : Mutate("Timespan::append", time, Timespan_append(s1, time))

TimespanPrependCall ==
    \E time \in Durations : Mutate("Timespan::prepend", time, Timespan_prepend(s1, time))

TimespanPopCall ==
    \E time \in Durations : Mutate("Timespan::pop", time, Timespan_pop(s1, time))

TimespanShiftCall ==
    \E time \in Durations : Mutate("Timespan::shift", time, Timespan_shift(s1, time))

NextTimespan ==
    \/ TimespanNewCall
    \/ TimespanDifferenceCall
    \/ TimespanSymmetricDifferenceCall
    \/ TimespanIntersectionCall
    \/ TimespanUnionCall
    \/ TimespanSplitOffCall
    \/ TimespanAppendCall
    \/ TimespanPrependCall
    \/ TimespanPopCall
    \/ TimespanShiftCall
    \/ TimespanDurationCall
    \/ TimespanContainsCall
    \/ TimespanIsDisjointCall
    \/ TimespanIsSubsetCall
    \/ TimespanIsSupersetCall

SpecTimespan == InitTimespan /\ [][NextTimespan]_vars
(***************************************************************************)
(* Span::parse_from_str.  The template is escaped, its placeholders are    *)
(* replaced by capture groups, the resulting pattern is compiled and       *)
(* matched against the input, and the two first captures are parsed as     *)
(* points.                                                                 *)
(***************************************************************************)
StartToken == <<"{", "s", "t", "a", "r", "t", "}">>

EndToken == <<"{", "e", "n", "d", "}">>

(* what repl_re matches: the escaped placeholders \{start\} and \{end\} *)
EscapedStartToken == <<"\\", "{", "s", "t", "a", "r", "t", "\\", "}">>

EscapedEndToken == <<"\\", "{", "e", "n", "d", "\\", "}">>

(* the replacement text of replace_all *)
GroupText == <<"(", ".", "*", ")">>

(* the characters regex::escape puts a backslash before *)
MetaChars ==
    {"\\", ".", "+", "*", "?", "(", ")", "|", "[", "]", "{", "}", "^", "$", "#", "&", "-", "~"}

(* str::starts_with of the text from the i-th character on *)
PrefixAt(text, i, pat) ==
    /\ i >= 1
    /\ i + Len(pat) - 1 <= Len(text)
    /\ \A k \in 1 .. Len(pat) : text[i + k - 1] = pat[k]

(* Option<usize>: None *)
None == 0 - 1

(* The white space characters (char::is_whitespace, and \s of the regex    *)
(* crate).                                                                 *)
IsSpace(c) ==
    c \in
    {" ", "\t", "\n", "\f", "\r", "U+000B", "U+0085", "U+00A0", "U+1680",
     "U+2000", "U+2001", "U+2002", "U+2003", "U+2004", "U+2005", "U+2006",
     "U+2007", "U+2008", "U+2009", "U+200A", "U+2028", "U+2029", "U+202F",
     "U+205F", "U+3000"}

(* char::len_utf8, the number of bytes of a character in UTF-8: one below  *)
(* U+0080, two below U+0800, three below U+10000, else four.  A character  *)
(* written as itself is an ASCII character; a code point is written with   *)
(* four hexadecimal digits, or with more from U+10000 on.                  *)
Utf8Len(c) ==
    LET Hex == <<"0", "1", "2", "3", "4", "5", "6", "7",
                 "8", "9", "A", "B", "C", "D", "E", "F">>
    IN  IF Len(c) = 1
        THEN 1
        ELSE IF Len(c) > 6
        THEN 4
        ELSE IF c \in {"U+00" \o Hex[x] \o Hex[y] : x \in 1 .. 8, y \in 1 .. 16}
        THEN 1
        ELSE IF c \in {"U+0" \o Hex[x] \o Hex[y] \o Hex[z] :
                            x \in 1 .. 8, y \in 1 .. 16, z \in 1 .. 16}
        THEN 2
        ELSE 3

(* The concatenation of the pieces lo .. hi of a sequence of texts, and    *)
(* the sum of the numbers lo .. hi of a sequence, both taken by halves, so *)
(* that a text of any length is gone through in few nested steps.          *)
RECURSIVE Flatten(_, _, _)
Flatten(pieces, lo, hi) ==
    IF lo > hi
    THEN <<>>
    ELSE IF lo = hi
    THEN pieces[lo]
    ELSE Flatten(pieces, lo, (lo + hi) \div 2) \o Flatten(pieces, (lo + hi) \div 2 + 1, hi)

RECURSIVE Sum(_, _, _)
Sum(nums, lo, hi) ==
    IF lo > hi
    THEN 0
    ELSE IF lo = hi
    THEN nums[lo]
    ELSE Sum(nums, lo, (lo + hi) \div 2) + Sum(nums, (lo + hi) \div 2 + 1, hi)

(* str::len, the number of bytes of a text *)
len(text) == Sum([i \in 1 .. Len(text) |-> Utf8Len(text[i])], 1, Len(text))

(* str::find: the byte index of the first occurrence, or None *)
find(text, pat) ==
    LET first == CHOOSE i \in 1 .. Len(text) + 1 :
                     PrefixAt(text, i, pat) /\ \A j \in 1 .. i - 1 : ~PrefixAt(text, j, pat)
    IN  IF \E i \in 1 .. Len(text) + 1 : PrefixAt(text, i, pat)
        THEN len(SubSeq(text, 1, first - 1))
        ELSE None

(* regex::escape: a backslash before every character of MetaChars *)
escape(text) ==
    Flatten([i \in 1 .. Len(text) |->
                IF text[i] \in MetaChars THEN <<"\\", text[i]>> ELSE <<text[i]>>],
            1, Len(text))

(* The length of the match of repl_re that starts at i, 0 if none does:    *)
(* the matches are the occurrences of an escaped placeholder, from the     *)
(* left, that begin outside the matches before them.                       *)
RECURSIVE MatchAt(_, _)
MatchAt(esc, i) ==
    LET token == IF PrefixAt(esc, i, EscapedStartToken)
                 THEN Len(EscapedStartToken)
                 ELSE IF PrefixAt(esc, i, EscapedEndToken)
                 THEN Len(EscapedEndToken)
                 ELSE 0
    IN  IF token = 0
        THEN 0
        ELSE IF \E j \in 1 .. Len(EscapedStartToken) - 1 : i - j >= 1 /\ MatchAt(esc, i - j) > j
        THEN 0
        ELSE token

(* repl_re.replace_all(&esc, ...): every escaped placeholder becomes a     *)
(* group.  A match begins with a backslash; a character within a match     *)
(* that begins before it is dropped.                                       *)
replace_all(esc) ==
    Flatten([i \in 1 .. Len(esc) |->
                IF esc[i] = "\\" /\ MatchAt(esc, i) > 0
                THEN GroupText
                ELSE IF \E j \in 1 .. Len(EscapedStartToken) - 1 :
                            i - j >= 1 /\ esc[i - j] = "\\" /\ MatchAt(esc, i - j) > j
                THEN <<>>
                ELSE <<esc[i]>>],
            1, Len(esc))

Digits == <<"0", "1", "2", "3", "4", "5", "6", "7", "8", "9">>

DigitValue(c) == (CHOOSE i \in 1 .. Len(Digits) : Digits[i] = c) - 1

(* char::is_ascii_digit *)
IsDigit(c) == \E i \in 1 .. Len(Digits) : Digits[i] = c

(***************************************************************************)
(* The patterns of the program and their matching.  The program compiles   *)
(* three patterns: the one parse_from_str builds from the template, which  *)
(* holds literal characters, punctuation behind a backslash and any-text   *)
(* groups only; the pattern of from_str; and the separator of              *)
(* Timespan::from_str.  A compiled pattern is a sequence of items: a       *)
(* literal character, or a greedy run of characters of a class (any        *)
(* character but the line feed, or white space) of a least length, which   *)
(* is capture group number group when group is not 0.                      *)
(***************************************************************************)
Literal(c) == [kind |-> "literal", ch |-> c]

Run(class, min, group) == [kind |-> "run", class |-> class, min |-> min, group |-> group]

Regex(items, groups) == [ok |-> TRUE, items |-> items, groups |-> groups]

(* Regex::new refuses the pattern *)
RegexError == [ok |-> FALSE, items |-> <<>>, groups |-> 0]

(* The size limit of Regex::new, in bytes, and the sizes of the compiled   *)
(* programs it is compared with.  The regex crate compiles a forward       *)
(* program, which holds the capture groups, and a reverse program, which   *)
(* does not; each must fit.  A program takes its base size, ByteSize for   *)
(* every byte of a literal character, and the size of an any-text group.   *)
SizeLimit == 10485760

ByteSize == 32

ForwardBase == 208

ForwardGroup == 528

ReverseBase == 144

ReverseGroup == 1040

(* whether the compiled programs of a pattern of that many literal bytes   *)
(* and any-text groups are within the size limit                           *)
FitsSizeLimit(bytes, groups) ==
    /\ ForwardBase + ByteSize * bytes + ForwardGroup * groups <= SizeLimit
    /\ ReverseBase + ByteSize * bytes + ReverseGroup * groups <= SizeLimit

(* Whether the backslash at i of a pattern text makes the character after  *)
(* it a literal: it does unless it is itself behind such a backslash.      *)
RECURSIVE Escapes(_, _)
Escapes(repl, i) == i >= 1 /\ repl[i] = "\\" /\ ~Escapes(repl, i - 1)

(* span.rs:349-354: regex::escape(fmt), repl_re.replace_all and            *)
(* Regex::new(&repl).  The pattern text is read from the left: the group   *)
(* text is a capture group of any text, numbered in order; a backslash     *)
(* makes the punctuation character after it a literal; any other character *)
(* is a literal.                                                           *)
TemplateRegex(fmt) ==
    LET repl == replace_all(escape(fmt))
        GroupAt(i) ==
            i >= 1 /\ repl[i] = "(" /\ PrefixAt(repl, i, GroupText) /\ ~Escapes(repl, i - 1)
        read == [i \in 1 .. Len(repl) |->
                    IF Escapes(repl, i)
                    THEN <<>>
                    ELSE IF Escapes(repl, i - 1)
                    THEN <<Literal(repl[i])>>
                    ELSE IF GroupAt(i)
                    THEN <<Run("any", 0, 1)>>
                    ELSE IF \E j \in 1 .. Len(GroupText) - 1 : GroupAt(i - j)
                    THEN <<>>
                    ELSE <<Literal(repl[i])>>]
        Compiled(items) ==
            LET groups == {k \in 1 .. Len(items) : items[k].kind = "run"}
                bytes == Sum([k \in 1 .. Len(items) |->
                                 IF items[k].kind = "literal" THEN Utf8Len(items[k].ch) ELSE 0],
                             1, Len(items))
                numbered ==
                    [k \in 1 .. Len(items) |->
                        IF items[k].kind = "run"
                        THEN Run("any", 0, Cardinality({j \in groups : j <= k}))
                        ELSE items[k]]
            IN  IF FitsSizeLimit(bytes, Cardinality(groups))
                THEN Regex(numbered, Cardinality(groups))
                ELSE RegexError
    IN  Compiled(Flatten(read, 1, Len(repl)))

(* Captures::get(i) of a group that did not take part in the match *)
NoCapture == <<"None">>

(* whether c is a character of the class: \s is white space, the dot is    *)
(* any character but the line feed                                         *)
InClass(class, c) == IF class = "space" THEN IsSpace(c) ELSE c # "\n"

(* the length of the longest run of characters of the class from pos *)
RECURSIVE RunLength(_, _, _)
RunLength(class, s, pos) ==
    IF pos > Len(s) \/ ~InClass(class, s[pos])
    THEN 0
    ELSE 1 + RunLength(class, s, pos + 1)

NoMatch == [found |-> FALSE, start |-> 0, end |-> 0, caps |-> <<>>]

(* The items from k match s from pos: the first match in the order of the  *)
(* regex crate, in which a greedy run takes the longest text that lets the *)
(* rest of the pattern match.  MatchRun tries the run of item k as         *)
(* s[pos .. e - 1], then the shorter ones; a run before a literal can only *)
(* end where that literal stands.                                          *)
RECURSIVE MatchItems(_, _, _, _, _), MatchRun(_, _, _, _, _, _)
MatchItems(items, k, s, pos, caps) ==
    IF k > Len(items)
    THEN [found |-> TRUE, start |-> 0, end |-> pos, caps |-> caps]
    ELSE IF items[k].kind = "run"
    THEN MatchRun(items, k, s, pos, pos + RunLength(items[k].class, s, pos), caps)
    ELSE IF pos <= Len(s) /\ s[pos] = items[k].ch
    THEN MatchItems(items, k + 1, s, pos + 1, caps)
    ELSE NoMatch

MatchRun(items, k, s, pos, e, caps) ==
    LET Shorter == MatchRun(items, k, s, pos, e - 1, caps)
        Tried(m) == IF m.found THEN m ELSE Shorter
        LiteralNext == k < Len(items) /\ items[k + 1].kind = "literal"
    IN  IF e - pos < items[k].min
        THEN NoMatch
        ELSE IF LiteralNext /\ (e > Len(s) \/ s[e] # items[k + 1].ch)
        THEN Shorter
        ELSE Tried(MatchItems(items, k + 1, s, e,
                              IF items[k].group = 0
                              THEN caps
                              ELSE [caps EXCEPT ![items[k].group] = SubSeq(s, pos, e - 1)]))

(* A search that tries the pattern at the position given only. *)
SearchFrom_at_start(re, s, pos) ==
    LET First(m) == IF m.found THEN [m EXCEPT !.start = pos] ELSE NoMatch
    IN  First(MatchItems(re.items, 1, s, pos, [i \in 1 .. re.groups |-> NoCapture]))

(* the leftmost match that starts at pos or later; end is the position     *)
(* after the match                                                         *)
RECURSIVE SearchFrom(_, _, _)
SearchFrom(re, s, pos) ==
    LET First(m) == IF m.found
                    THEN [m EXCEPT !.start = pos]
                    ELSE IF pos > Len(s)
                    THEN NoMatch
                    ELSE SearchFrom(re, s, pos + 1)
    IN  First(MatchItems(re.items, 1, s, pos, [i \in 1 .. re.groups |-> NoCapture]))

(* Regex::captures (and Regex::find): the leftmost match *)
captures(re, s) == SearchFrom(re, s, 1)

(* Captures::get(i): whether group i exists and took part in the match *)
HasGroup(caps, i) == i <= Len(caps.caps) /\ caps.caps[i] # NoCapture
(***************************************************************************)
(* The point type's text forms (chrono's, for NaiveTime).  A format        *)
(* specifier is read as a sequence of items (StrftimeItems): a numeric     *)
(* field with its padding, a fixed-form field, white space, literal text,  *)
(* or an error.  A time of day is rendered under the items of its own      *)
(* fields only; a text is read under every item, and the fields of a date  *)
(* or of a time zone that were read are dropped when the time of day is    *)
(* made of the fields (Parsed::to_naive_time).                             *)
(***************************************************************************)
Numeric(spec, pad) == [kind |-> "numeric", spec |-> spec, pad |-> pad]

Fixed(spec) == [kind |-> "fixed", spec |-> spec]

ItemLiteral(text) == [kind |-> "literal", text |-> text]

ItemSpace(text) == [kind |-> "space", text |-> text]

ItemError == [kind |-> "error"]

(* the items the letter after a % stands for: one item, or the items of a  *)
(* composed specifier                                                      *)
SpecItems(c) ==
    LET num(spec) == Numeric(spec, "None")
        num0(spec) == Numeric(spec, "Zero")
        nums(spec) == Numeric(spec, "Space")
        lit(ch) == ItemLiteral(<<ch>>)
        sp(ch) == ItemSpace(<<ch>>)
        D_FMT == <<num0("Month"), lit("/"), num0("Day"), lit("/"), num0("YearMod100")>>
        T_FMT == <<num0("Hour"), lit(":"), num0("Minute"), lit(":"), num0("Second")>>
    IN
    CASE c = "A" -> <<Fixed("LongWeekdayName")>>
      [] c = "B" -> <<Fixed("LongMonthName")>>
      [] c = "C" -> <<num0("YearDiv100")>>
      [] c \in {"D", "x"} -> D_FMT
      [] c = "F" -> <<num0("Year"), lit("-"), num0("Month"), lit("-"), num0("Day")>>
      [] c = "G" -> <<num0("IsoYear")>>
      [] c = "H" -> <<num0("Hour")>>
      [] c = "I" -> <<num0("Hour12")>>
      [] c = "M" -> <<num0("Minute")>>
      [] c = "P" -> <<Fixed("LowerAmPm")>>
      [] c = "R" -> <<num0("Hour"), lit(":"), num0("Minute")>>
      [] c = "S" -> <<num0("Second")>>
      [] c \in {"T", "X"} -> T_FMT
      [] c = "U" -> <<num0("WeekFromSun")>>
      [] c = "V" -> <<num0("IsoWeek")>>
      [] c = "W" -> <<num0("WeekFromMon")>>
      [] c = "Y" -> <<num0("Year")>>
      [] c = "Z" -> <<Fixed("TimezoneName")>>
      [] c = "a" -> <<Fixed("ShortWeekdayName")>>
      [] c \in {"b", "h"} -> <<Fixed("ShortMonthName")>>
      [] c = "c" ->
            <<Fixed("ShortWeekdayName"), sp(" "), Fixed("ShortMonthName"), sp(" "),
              nums("Day"), sp(" "), num0("Hour"), lit(":"), num0("Minute"), lit(":"),
              num0("Second"), sp(" "), num0("Year")>>
      [] c = "d" -> <<num0("Day")>>
      [] c = "e" -> <<nums("Day")>>
      [] c = "f" -> <<num0("Nanosecond")>>
      [] c = "g" -> <<num0("IsoYearMod100")>>
      [] c = "j" -> <<num0("Ordinal")>>
      [] c = "k" -> <<nums("Hour")>>
      [] c = "l" -> <<nums("Hour12")>>
      [] c = "m" -> <<num0("Month")>>
      [] c = "n" -> <<sp("\n")>>
      [] c = "p" -> <<Fixed("UpperAmPm")>>
      [] c = "q" -> <<num("Quarter")>>
      [] c = "r" ->
            <<num0("Hour12"), lit(":"), num0("Minute"), lit(":"), num0("Second"), sp(" "),
              Fixed("UpperAmPm")>>
      [] c = "s" -> <<num("Timestamp")>>
      [] c = "t" -> <<sp("\t")>>
      [] c = "u" -> <<num("WeekdayFromMon")>>
      [] c = "v" ->
            <<nums("Day"), lit("-"), Fixed("ShortMonthName"), lit("-"), num0("Year")>>
      [] c = "w" -> <<num("NumDaysFromSun")>>
      [] c = "y" -> <<num0("YearMod100")>>
      [] c = "z" -> <<Fixed("TimezoneOffset")>>
      [] c = "+" -> <<Fixed("RFC3339")>>
      [] c = "%" -> <<lit("%")>>
      [] OTHER -> <<ItemError>>

(* the length of the run of white space characters from pos *)
RECURSIVE SpaceRun(_, _)
SpaceRun(s, pos) ==
    IF pos > Len(s) \/ ~IsSpace(s[pos])
    THEN 0
    ELSE 1 + SpaceRun(s, pos + 1)

(* the length of the run of digits from pos, up to max of them *)
RECURSIVE DigitRun(_, _, _)
DigitRun(s, pos, max) ==
    IF max = 0 \/ pos > Len(s) \/ ~IsDigit(s[pos])
    THEN 0
    ELSE 1 + DigitRun(s, pos + 1, max - 1)

(* StrftimeItems::new(fmt), the items from position j.  After the % may    *)
(* stand a padding modifier (- for none, 0, _ for blanks), which is        *)
(* allowed before a single numeric item only, or the # of the alternate    *)
(* form, which %z has; %:z, %::z and %:::z are forms of the offset; %.f,   *)
(* %.3f, %.6f, %.9f, %3f, %6f and %9f are the forms of the fraction of a   *)
(* second.  A specifier that is not known is an error item, and the items  *)
(* go on after it.  Text outside the specifiers is cut into runs of white  *)
(* space and runs of other characters.                                     *)
RECURSIVE StrftimeItems(_, _)
StrftimeItems(fmt, j) ==
    LET Then(items, k) == items \o StrftimeItems(fmt, k)
        One(item, k) == [items |-> <<item>>, next |-> k]
        (* the specifier at k: its items, and the position after it *)
        Specifier(k) ==
            IF k > Len(fmt)
            THEN One(ItemError, k)
            ELSE IF fmt[k] = ":"
            THEN IF PrefixAt(fmt, k + 1, <<":", ":", "z">>)
                 THEN One(Fixed("TimezoneOffsetTripleColon"), k + 4)
                 ELSE IF PrefixAt(fmt, k + 1, <<":", "z">>)
                 THEN One(Fixed("TimezoneOffsetDoubleColon"), k + 3)
                 ELSE IF PrefixAt(fmt, k + 1, <<"z">>)
                 THEN One(Fixed("TimezoneOffsetColon"), k + 2)
                 ELSE One(ItemError, k + 1)
            ELSE IF fmt[k] = "."
            THEN IF k + 1 > Len(fmt)
                 THEN One(ItemError, k + 1)
                 ELSE IF fmt[k + 1] = "f"
                 THEN One(Fixed("Nanosecond"), k + 2)
                 ELSE IF fmt[k + 1] \in {"3", "6", "9"}
                 THEN IF k + 2 > Len(fmt)
                      THEN One(ItemError, k + 2)
                      ELSE IF fmt[k + 2] = "f"
                      THEN One(Fixed("Nanosecond" \o fmt[k + 1]), k + 3)
                      ELSE One(ItemError, k + 3)
                 ELSE One(ItemError, k + 2)
            ELSE IF fmt[k] \in {"3", "6", "9"}
            THEN IF k + 1 > Len(fmt)
                 THEN One(ItemError, k + 1)
                 ELSE IF fmt[k + 1] = "f"
                 THEN One(Fixed("Nanosecond" \o fmt[k] \o "NoDot"), k + 2)
                 ELSE One(ItemError, k + 2)
            ELSE [items |-> SpecItems(fmt[k]), next |-> k + 1]
        Plain(r) == Then(r.items, r.next)
        Padded(pad, r) ==
            IF Len(r.items) = 1 /\ r.items[1].kind = "numeric"
            THEN Then(<<Numeric(r.items[1].spec, pad)>>, r.next)
            ELSE Then(<<ItemError>> \o Tail(r.items), r.next)
        (* the end of the run of text from j: of white space, or of        *)
        (* characters that are neither white space nor a %                 *)
        TextEnd ==
            LET ends == {k \in j + 1 .. Len(fmt) :
                            IF IsSpace(fmt[j])
                            THEN ~IsSpace(fmt[k])
                            ELSE IsSpace(fmt[k]) \/ fmt[k] = "%"}
            IN  IF ends = {}
                THEN Len(fmt) + 1
                ELSE CHOOSE k \in ends : \A m \in ends : k <= m
        Text(k) ==
            IF IsSpace(fmt[j])
            THEN Then(<<ItemSpace(SubSeq(fmt, j, k - 1))>>, k)
            ELSE Then(<<ItemLiteral(SubSeq(fmt, j, k - 1))>>, k)
    IN  IF j > Len(fmt)
        THEN <<>>
        ELSE IF fmt[j] # "%"
        THEN Text(TextEnd)
        ELSE IF j = Len(fmt)
        THEN <<ItemError>>
        ELSE IF fmt[j + 1] \in {"-", "0", "_"}
        THEN Padded(CASE fmt[j + 1] = "-" -> "None"
                      [] fmt[j + 1] = "0" -> "Zero"
                      [] OTHER -> "Space",
                    Specifier(j + 2))
        ELSE IF fmt[j + 1] = "#"
        THEN IF j + 2 > Len(fmt)
             THEN <<ItemError>>
             ELSE IF fmt[j + 2] = "z"
             THEN Then(<<Fixed("TimezoneOffsetPermissive")>>, j + 3)
             ELSE Then(<<ItemError>>, j + 3)
        ELSE Plain(Specifier(j + 1))

(* a natural number in decimal *)
RECURSIVE Decimal(_)
Decimal(n) ==
    IF n < 10
    THEN <<Digits[n + 1]>>
    ELSE Append(Decimal(n \div 10), Digits[(n % 10) + 1])

(* n in decimal, filled to the width with zeros or blanks, or not filled *)
PadNumber(n, width, pad) ==
    LET Filled(d) == IF pad = "None" \/ Len(d) >= width
                     THEN d
                     ELSE [i \in 1 .. (width - Len(d)) |-> IF pad = "Zero" THEN "0" ELSE " "]
                            \o d
    IN  Filled(Decimal(n))

(* Timelike for NaiveTime: the fields of the point p; within a leap second *)
(* the second is 59 and the nanosecond is 1000000000 or more               *)
hour(p) == p.secs \div 3600

minute(p) == (p.secs % 3600) \div 60

second(p) == p.secs % 60

nanosecond(p) == p.frac

FormatFailed == [ok |-> FALSE, out |-> <<>>]

(* The text of the point p under one item.  A time of day has no date and  *)
(* no offset: an item of those, like an error item, cannot be rendered.    *)
(* The second of a leap second is written 60.                              *)
ItemText(p, item) ==
    LET Written(out) == [ok |-> TRUE, out |-> out]
        nano == nanosecond(p) % NANOS_PER_SEC
        hour12 == IF hour(p) % 12 = 0 THEN 12 ELSE hour(p) % 12
    IN
    CASE item.kind \in {"literal", "space"} -> Written(item.text)
      [] item.kind = "numeric" /\ item.spec = "Hour" ->
            Written(PadNumber(hour(p), 2, item.pad))
      [] item.kind = "numeric" /\ item.spec = "Hour12" ->
            Written(PadNumber(hour12, 2, item.pad))
      [] item.kind = "numeric" /\ item.spec = "Minute" ->
            Written(PadNumber(minute(p), 2, item.pad))
      [] item.kind = "numeric" /\ item.spec = "Second" ->
            Written(PadNumber(second(p) + nanosecond(p) \div NANOS_PER_SEC, 2, item.pad))
      [] item.kind = "numeric" /\ item.spec = "Nanosecond" ->
            Written(PadNumber(nano, 9, item.pad))
      [] item.kind = "fixed" /\ item.spec = "LowerAmPm" ->
            Written(IF hour(p) < 12 THEN <<"a", "m">> ELSE <<"p", "m">>)
      [] item.kind = "fixed" /\ item.spec = "UpperAmPm" ->
            Written(IF hour(p) < 12 THEN <<"A", "M">> ELSE <<"P", "M">>)
      [] item.kind = "fixed" /\ item.spec = "Nanosecond" ->
            Written(IF nano = 0
                    THEN <<>>
                    ELSE IF nano % 1000000 = 0
                    THEN <<".">> \o PadNumber(nano \div 1000000, 3, "Zero")
                    ELSE IF nano % 1000 = 0
                    THEN <<".">> \o PadNumber(nano \div 1000, 6, "Zero")
                    ELSE <<".">> \o PadNumber(nano, 9, "Zero"))
      [] item.kind = "fixed" /\ item.spec = "Nanosecond3" ->
            Written(<<".">> \o PadNumber(nano \div 1000000, 3, "Zero"))
      [] item.kind = "fixed" /\ item.spec = "Nanosecond6" ->
            Written(<<".">> \o PadNumber(nano \div 1000, 6, "Zero"))
      [] item.kind = "fixed" /\ item.spec = "Nanosecond9" ->
            Written(<<".">> \o PadNumber(nano, 9, "Zero"))
      [] item.kind = "fixed" /\ item.spec = "Nanosecond3NoDot" ->
            Written(PadNumber(nano \div 1000000, 3, "Zero"))
      [] item.kind = "fixed" /\ item.spec = "Nanosecond6NoDot" ->
            Written(PadNumber(nano \div 1000, 6, "Zero"))
      [] item.kind = "fixed" /\ item.spec = "Nanosecond9NoDot" ->
            Written(PadNumber(nano, 9, "Zero"))
      [] OTHER -> FormatFailed

(* The text of a point under the items from k: when an item cannot be      *)
(* rendered, nothing is written.                                           *)
RECURSIVE FormatItems(_, _, _)
FormatItems(p, items, k) ==
    LET Both(this, rest) == IF this.ok /\ rest.ok
                            THEN [ok |-> TRUE, out |-> this.out \o rest.out]
                            ELSE FormatFailed
    IN  IF k > Len(items)
        THEN [ok |-> TRUE, out |-> <<>>]
        ELSE Both(ItemText(p, items[k]), FormatItems(p, items, k + 1))

(* write_fmt(format_args!("{}", point.format(fmt))) into an empty String *)
PointFormat(p, fmt) == FormatItems(p, StrftimeItems(fmt, 1), 1)

(* The Display form of a point: hh:mm:ss, the second of a leap second      *)
(* written 60, then the fraction of the second, if it is not 0, in three,  *)
(* six or nine digits.                                                     *)
PointToString(p) ==
    PadNumber(hour(p), 2, "Zero") \o <<":">> \o PadNumber(minute(p), 2, "Zero") \o <<":">>
        \o PadNumber(second(p) + nanosecond(p) \div NANOS_PER_SEC, 2, "Zero")
        \o ItemText(p, Fixed("Nanosecond")).out

ParseFailed == [ok |-> FALSE, val |-> NaiveTime(0, 0)]

(* char::to_ascii_lowercase *)
to_ascii_lowercase(c) ==
    LET upper == <<"A", "B", "C", "D", "E", "F", "G", "H", "I", "J", "K", "L", "M",
                   "N", "O", "P", "Q", "R", "S", "T", "U", "V", "W", "X", "Y", "Z">>
        lower == <<"a", "b", "c", "d", "e", "f", "g", "h", "i", "j", "k", "l", "m",
                   "n", "o", "p", "q", "r", "s", "t", "u", "v", "w", "x", "y", "z">>
    IN  IF \E i \in 1 .. 26 : upper[i] = c
        THEN lower[CHOOSE i \in 1 .. 26 : upper[i] = c]
        ELSE c

(* the text from i begins with the word, which is in small letters, in     *)
(* letters of either case                                                  *)
PrefixIgnoreCase(text, i, word) ==
    /\ i + Len(word) - 1 <= Len(text)
    /\ \A k \in 1 .. Len(word) : to_ascii_lowercase(text[i + k - 1]) = word[k]

(* the digits of i64::MAX, of i32::MAX and of the magnitude of i32::MIN *)
I64MaxDigits ==
    <<"9", "2", "2", "3", "3", "7", "2", "0", "3", "6", "8", "5", "4", "7", "7", "5", "8",
      "0", "7">>

I32MaxDigits == <<"2", "1", "4", "7", "4", "8", "3", "6", "4", "7">>

I32MinDigits == <<"2", "1", "4", "7", "4", "8", "3", "6", "4", "8">>

(* whether the number written mag, without leading zeros, is at most the   *)
(* number written max                                                      *)
AtMost(mag, max) ==
    \/ Len(mag) < Len(max)
    \/ /\ Len(mag) = Len(max)
       /\ \A k \in 1 .. Len(mag) :
             (\A m \in 1 .. k - 1 : mag[m] = max[m]) =>
                 DigitValue(mag[k]) <= DigitValue(max[k])

(* scan::number(s, 1, max): the digits from i, at most max of them and at  *)
(* least one, which make a number of the i64 range; mag is the number read *)
(* as it is written without leading zeros, next the position after it      *)
Number(text, i, max) ==
    LET n == DigitRun(text, i, max)
        significant == {k \in i .. i + n - 1 : text[k] # "0"}
        mag == IF significant = {}
               THEN <<"0">>
               ELSE SubSeq(text, CHOOSE k \in significant : \A m \in significant : k <= m,
                           i + n - 1)
    IN  [ok |-> n >= 1 /\ AtMost(mag, I64MaxDigits), next |-> i + n, mag |-> mag]

(* the number written mag, of the i32 range, with the sign given *)
IntOf(mag, sign) ==
    LET val[k \in 0 .. Len(mag)] ==
            IF k = 0 THEN 0 ELSE 10 * val[k - 1] + sign * DigitValue(mag[k])
    IN  val[Len(mag)]

RECURSIVE Pow10(_)
Pow10(n) == IF n = 0 THEN 1 ELSE 10 * Pow10(n - 1)

(* The fields read from a text (chrono's Parsed), each an Option: <<>> for *)
(* None, <<v>> for Some(v).  ok is false once a value was out of range or  *)
(* a field was read twice with two values.                                 *)
NoFields ==
    [ok |-> TRUE, year |-> <<>>, year_div_100 |-> <<>>, year_mod_100 |-> <<>>,
     isoyear |-> <<>>, isoyear_div_100 |-> <<>>, isoyear_mod_100 |-> <<>>,
     quarter |-> <<>>, month |-> <<>>, week_from_sun |-> <<>>, week_from_mon |-> <<>>,
     isoweek |-> <<>>, weekday |-> <<>>, ordinal |-> <<>>, day |-> <<>>,
     hour_div_12 |-> <<>>, hour_mod_12 |-> <<>>, minute |-> <<>>, second |-> <<>>,
     nanosecond |-> <<>>, timestamp |-> <<>>, offset |-> <<>>]

(* set_if_consistent *)
Put(got, field, v) ==
    IF got[field] \in {<<>>, <<v>>}
    THEN [got EXCEPT ![field] = <<v>>]
    ELSE [got EXCEPT !.ok = FALSE]

(* The setters of Parsed, by the numeric item they serve: each refuses a   *)
(* value outside the range of its field.  The weekday is held as its       *)
(* number of days from Monday.                                             *)
SetField(got, spec, v) ==
    LET Range(low, high, field, value) ==
            IF v < low \/ v > high
            THEN [got EXCEPT !.ok = FALSE]
            ELSE Put(got, field, value)
        Mod(g) == IF g.ok THEN Put(g, "hour_mod_12", v % 12) ELSE g
    IN
    CASE spec = "Year" -> Put(got, "year", v)
      [] spec = "YearDiv100" -> Range(0, 2147483647, "year_div_100", v)
      [] spec = "YearMod100" -> Range(0, 99, "year_mod_100", v)
      [] spec = "IsoYear" -> Put(got, "isoyear", v)
      [] spec = "IsoYearDiv100" -> Range(0, 2147483647, "isoyear_div_100", v)
      [] spec = "IsoYearMod100" -> Range(0, 99, "isoyear_mod_100", v)
      [] spec = "Quarter" -> Range(1, 4, "quarter", v)
      [] spec = "Month" -> Range(1, 12, "month", v)
      [] spec = "Day" -> Range(1, 31, "day", v)
      [] spec = "WeekFromSun" -> Range(0, 53, "week_from_sun", v)
      [] spec = "WeekFromMon" -> Range(0, 53, "week_from_mon", v)
      [] spec = "IsoWeek" -> Range(1, 53, "isoweek", v)
      [] spec = "NumDaysFromSun" -> Range(0, 6, "weekday", (v + 6) % 7)
      [] spec = "WeekdayFromMon" -> Range(1, 7, "weekday", v - 1)
      [] spec = "Ordinal" -> Range(1, 366, "ordinal", v)
      [] spec = "Hour" ->
            IF v < 0 \/ v > 23
            THEN [got EXCEPT !.ok = FALSE]
            ELSE Mod(Put(got, "hour_div_12", v \div 12))
      [] spec = "Hour12" -> Range(1, 12, "hour_mod_12", v % 12)
      [] spec = "Minute" -> Range(0, 59, "minute", v)
      [] spec = "Second" -> Range(0, 60, "second", v)
      [] spec = "Nanosecond" -> Range(0, 999999999, "nanosecond", v)

(* Parsed::to_naive_time: the hour and the minute are needed, the second   *)
(* is 0 when it was not read, the second 60 is the leap second after the   *)
(* 59th, and a fraction needs a second; the other fields are not looked at *)
to_naive_time(got) ==
    LET sec == IF got.second = <<>> THEN 0 ELSE got.second[1]
        nano == IF got.nanosecond = <<>> THEN 0 ELSE got.nanosecond[1]
    IN  IF \/ ~got.ok
           \/ got.hour_div_12 = <<>>
           \/ got.hour_mod_12 = <<>>
           \/ got.minute = <<>>
           \/ (got.nanosecond # <<>> /\ got.second = <<>>)
        THEN ParseFailed
        ELSE [ok |-> TRUE,
              val |-> NaiveTime((got.hour_div_12[1] * 12 + got.hour_mod_12[1]) * 3600
                                    + got.minute[1] * 60 + (IF sec = 60 THEN 59 ELSE sec),
                                (IF sec = 60 THEN NANOS_PER_SEC ELSE 0) + nano)]

(* scan::timezone_offset with scan::colon_or_space, on the text from i: a  *)
(* Z where it is allowed, or a sign (+, - or the minus sign U+2212), two   *)
(* digits of hours, colons and white space, and two digits of minutes, the *)
(* first of them 0 to 5; the minutes may be missing, where that is         *)
(* allowed, at the end of the text only.  offset is in seconds.            *)
timezone_offset(text, i, allow_zulu, allow_missing_minutes) ==
    LET At(k, chars) == k <= Len(text) /\ text[k] \in chars
        Digit(k) == k <= Len(text) /\ IsDigit(text[k])
        Failed == [ok |-> FALSE, next |-> 0, offset |-> 0]
        Signed(secs) == IF text[i] = "+" THEN secs ELSE 0 - secs
        hours == 10 * DigitValue(text[i + 1]) + DigitValue(text[i + 2])
        others == {k \in i + 3 .. Len(text) : ~(text[k] = ":" \/ IsSpace(text[k]))}
        m == IF others = {}
             THEN Len(text) + 1
             ELSE CHOOSE k \in others : \A n \in others : k <= n
    IN  IF allow_zulu /\ At(i, {"Z", "z"})
        THEN [ok |-> TRUE, next |-> i + 1, offset |-> 0]
        ELSE IF ~At(i, {"+", "-", "U+2212"})
        THEN Failed
        ELSE IF ~(Digit(i + 1) /\ Digit(i + 2))
        THEN Failed
        ELSE IF m > Len(text)
        THEN IF allow_missing_minutes
             THEN [ok |-> TRUE, next |-> m, offset |-> Signed(hours * 3600)]
             ELSE Failed
        ELSE IF Digit(m) /\ Digit(m + 1) /\ DigitValue(text[m]) <= 5
        THEN [ok |-> TRUE, next |-> m + 2,
              offset |-> Signed(hours * 3600
                                    + (10 * DigitValue(text[m]) + DigitValue(text[m + 1])) * 60)]
        ELSE Failed

(* scan::short_month0 and scan::short_weekday: the names of three letters, *)
(* in the order of the year and of the week from Monday; then what the     *)
(* long names add to them (scan::short_or_long_month0, _weekday)           *)
ShortMonths ==
    <<<<"j", "a", "n">>, <<"f", "e", "b">>, <<"m", "a", "r">>, <<"a", "p", "r">>,
      <<"m", "a", "y">>, <<"j", "u", "n">>, <<"j", "u", "l">>, <<"a", "u", "g">>,
      <<"s", "e", "p">>, <<"o", "c", "t">>, <<"n", "o", "v">>, <<"d", "e", "c">>>>

LongMonthSuffixes ==
    <<<<"u", "a", "r", "y">>, <<"r", "u", "a", "r", "y">>, <<"c", "h">>, <<"i", "l">>,
      <<>>, <<"e">>, <<"y">>, <<"u", "s", "t">>, <<"t", "e", "m", "b", "e", "r">>,
      <<"o", "b", "e", "r">>, <<"e", "m", "b", "e", "r">>, <<"e", "m", "b", "e", "r">>>>

ShortWeekdays ==
    <<<<"m", "o", "n">>, <<"t", "u", "e">>, <<"w", "e", "d">>, <<"t", "h", "u">>,
      <<"f", "r", "i">>, <<"s", "a", "t">>, <<"s", "u", "n">>>>

LongWeekdaySuffixes ==
    <<<<"d", "a", "y">>, <<"s", "d", "a", "y">>, <<"n", "e", "s", "d", "a", "y">>,
      <<"r", "s", "d", "a", "y">>, <<"d", "a", "y">>, <<"u", "r", "d", "a", "y">>,
      <<"d", "a", "y">>>>

ItemRead(next, got) == [ok |-> got.ok, next |-> next, got |-> got]

ItemFailed == [ok |-> FALSE, next |-> 0, got |-> NoFields]

(* format::parse for one item at position i of the text.  A numeric item   *)
(* skips white space and reads the digits of its width (a year may have a  *)
(* sign, and then any number of digits); a name of a month or of a day is  *)
(* read in letters of either case, and so is AM or PM; a fraction with its *)
(* dot may be missing; that of %.f has any number of digits, of which nine *)
(* are kept, that of %.3f, %.6f and %.9f, and a fraction without dot, has  *)
(* its exact number of digits; the name                                    *)
(* of a time zone is any text up to white space; white space in the        *)
(* specifier stands for any white space, also none; literal text stands    *)
(* for itself; an error item fails.  %+ is read by parse_rfc3339_relaxed.  *)
RECURSIVE ParseItem(_, _, _, _), ParseItems(_, _, _, _, _), parse_rfc3339_relaxed(_, _, _)
ParseItem(text, i, item, got) ==
    LET At(k, chars) == k <= Len(text) /\ text[k] \in chars
        start == i + SpaceRun(text, i)
        explicit == item.spec \in {"Year", "IsoYear"} /\ At(start, {"+", "-"})
        width ==
            CASE item.spec \in {"Year", "IsoYear"} -> 4
              [] item.spec = "Ordinal" -> 3
              [] item.spec \in {"Quarter", "NumDaysFromSun", "WeekdayFromMon"} -> 1
              [] item.spec = "Nanosecond" -> 9
              [] item.spec = "Timestamp" -> Len(text)
              [] OTHER -> 2
        Field(n, sign) ==
            IF ~n.ok
            THEN ItemFailed
            ELSE IF item.spec = "Timestamp"
            THEN ItemRead(n.next, Put(got, "timestamp", n.mag))
            ELSE IF ~AtMost(n.mag, IF sign < 0 THEN I32MinDigits ELSE I32MaxDigits)
            THEN ItemFailed
            ELSE ItemRead(n.next, SetField(got, item.spec, IntOf(n.mag, sign)))
        Name(names, suffixes, field, base) ==
            LET found == {k \in 1 .. Len(names) : PrefixIgnoreCase(text, i, names[k])}
                name == CHOOSE k \in found : TRUE
                long == suffixes # <<>> /\ PrefixIgnoreCase(text, i + 3, suffixes[name])
            IN  IF found = {}
                THEN ItemFailed
                ELSE ItemRead(i + 3 + (IF long THEN Len(suffixes[name]) ELSE 0),
                              Put(got, field, name - 1 + base))
        Fraction(n) ==
            IF ~n.ok
            THEN ItemFailed
            ELSE ItemRead(n.next + DigitRun(text, n.next, Len(text)),
                          SetField(got, "Nanosecond",
                                   IntOf(n.mag, 1) * Pow10(9 - (n.next - (i + 1)))))
        Exact(from, digits, n) ==
            IF n.next - from < digits
            THEN ItemFailed
            ELSE ItemRead(n.next,
                          SetField(got, "Nanosecond", IntOf(n.mag, 1) * Pow10(9 - digits)))
        Offset(o) ==
            IF o.ok
            THEN ItemRead(o.next, Put(got, "offset", o.offset))
            ELSE ItemFailed
        spaces == {k \in i .. Len(text) : IsSpace(text[k])}
    IN
    CASE item.kind = "literal" ->
            IF PrefixAt(text, i, item.text)
            THEN ItemRead(i + Len(item.text), got)
            ELSE ItemFailed
      [] item.kind = "space" -> ItemRead(start, got)
      [] item.kind = "numeric" ->
            Field(Number(text, IF explicit THEN start + 1 ELSE start,
                         IF explicit THEN Len(text) ELSE width),
                  IF explicit /\ text[start] = "-" THEN 0 - 1 ELSE 1)
      [] item.kind = "fixed" /\ item.spec = "ShortMonthName" ->
            Name(ShortMonths, <<>>, "month", 1)
      [] item.kind = "fixed" /\ item.spec = "LongMonthName" ->
            Name(ShortMonths, LongMonthSuffixes, "month", 1)
      [] item.kind = "fixed" /\ item.spec = "ShortWeekdayName" ->
            Name(ShortWeekdays, <<>>, "weekday", 0)
      [] item.kind = "fixed" /\ item.spec = "LongWeekdayName" ->
            Name(ShortWeekdays, LongWeekdaySuffixes, "weekday", 0)
      [] item.kind = "fixed" /\ item.spec \in {"LowerAmPm", "UpperAmPm"} ->
            IF At(i, {"a", "A", "p", "P"}) /\ At(i + 1, {"m", "M"})
            THEN ItemRead(i + 2,
                          Put(got, "hour_div_12", IF text[i] \in {"p", "P"} THEN 1 ELSE 0))
            ELSE ItemFailed
      [] item.kind = "fixed"
            /\ item.spec \in {"Nanosecond", "Nanosecond3", "Nanosecond6", "Nanosecond9"} ->
            IF ~At(i, {"."})
            THEN ItemRead(i, got)
            ELSE CASE item.spec = "Nanosecond3" -> Exact(i + 1, 3, Number(text, i + 1, 3))
                   [] item.spec = "Nanosecond6" -> Exact(i + 1, 6, Number(text, i + 1, 6))
                   [] item.spec = "Nanosecond9" -> Exact(i + 1, 9, Number(text, i + 1, 9))
                   [] OTHER -> Fraction(Number(text, i + 1, 9))
      [] item.kind = "fixed" /\ item.spec = "Nanosecond3NoDot" -> Exact(i, 3, Number(text, i, 3))
      [] item.kind = "fixed" /\ item.spec = "Nanosecond6NoDot" -> Exact(i, 6, Number(text, i, 6))
      [] item.kind = "fixed" /\ item.spec = "Nanosecond9NoDot" -> Exact(i, 9, Number(text, i, 9))
      [] item.kind = "fixed" /\ item.spec = "TimezoneName" ->
            ItemRead(IF spaces = {}
                     THEN Len(text) + 1
                     ELSE CHOOSE k \in spaces : \A m \in spaces : k <= m,
                     got)
      [] item.kind = "fixed"
            /\ item.spec \in {"TimezoneOffset", "TimezoneOffsetColon",
                              "TimezoneOffsetDoubleColon", "TimezoneOffsetTripleColon"} ->
            Offset(timezone_offset(text, start, FALSE, FALSE))
      [] item.kind = "fixed" /\ item.spec = "TimezoneOffsetPermissive" ->
            Offset(timezone_offset(text, start, TRUE, TRUE))
      [] item.kind = "fixed" /\ item.spec = "RFC3339" -> parse_rfc3339_relaxed(text, i, got)
      [] OTHER -> ItemFailed

(* format::parse: the items from k are met by the text from i; the result  *)
(* carries the fields read and the position after the text read            *)
ParseItems(text, i, items, k, got) ==
    LET Then(r) == IF r.ok THEN ParseItems(text, r.next, items, k + 1, r.got) ELSE r
    IN  IF k > Len(items)
        THEN ItemRead(i, got)
        ELSE Then(ParseItem(text, i, items[k], got))

(* The text of %+: a date, one of T, t or a blank, a time of day, and Z,   *)
(* UTC or an offset, which cannot be missing; white space may stand around *)
(* the hyphens and the colons and before the offset.                       *)
parse_rfc3339_relaxed(text, i, got) ==
    LET DATE_ITEMS ==
            <<Numeric("Year", "Zero"), ItemSpace(<<>>), ItemLiteral(<<"-">>),
              Numeric("Month", "Zero"), ItemSpace(<<>>), ItemLiteral(<<"-">>),
              Numeric("Day", "Zero")>>
        TIME_ITEMS ==
            <<Numeric("Hour", "Zero"), ItemSpace(<<>>), ItemLiteral(<<":">>),
              Numeric("Minute", "Zero"), ItemSpace(<<>>), ItemLiteral(<<":">>),
              Numeric("Second", "Zero"), Fixed("Nanosecond"), ItemSpace(<<>>)>>
        Offset(g, o) ==
            IF o.ok
            THEN ItemRead(o.next, Put(g, "offset", o.offset))
            ELSE ItemFailed
        Zone(g, k) ==
            IF PrefixIgnoreCase(text, k, <<"u", "t", "c">>)
            THEN ItemRead(k + 3, Put(g, "offset", 0))
            ELSE Offset(g, timezone_offset(text, k, TRUE, FALSE))
        Time(r) ==
            IF ~r.ok \/ r.next > Len(text)
            THEN ItemFailed
            ELSE Zone(r.got, r.next + SpaceRun(text, r.next))
        Date(r) ==
            IF ~r.ok \/ r.next > Len(text) \/ text[r.next] \notin {"t", "T", " "}
            THEN ItemFailed
            ELSE Time(ParseItems(text, r.next + 1, TIME_ITEMS, 1, r.got))
    IN  Date(ParseItems(text, i, DATE_ITEMS, 1, got))

(* T::parse_from_str(s, fmt): the whole text is read under the items of    *)
(* fmt, and the fields read make a time of day                             *)
PointParseFromStr(text, fmt) ==
    LET Whole(r) == IF r.ok /\ r.next > Len(text) THEN to_naive_time(r.got) ELSE ParseFailed
    IN  Whole(ParseItems(text, 1, StrftimeItems(fmt, 1), 1, NoFields))

(* T::from_str(s): the hour and the minute, then the second with its       *)
(* fraction if the text goes on with them, then white space to the end;    *)
(* white space may stand before a number and around the colons             *)
PointFromStr(text) ==
    LET HOUR_AND_MINUTE ==
            <<Numeric("Hour", "Zero"), ItemSpace(<<>>), ItemLiteral(<<":">>),
              Numeric("Minute", "Zero")>>
        SECOND_AND_NANOS ==
            <<ItemSpace(<<>>), ItemLiteral(<<":">>), Numeric("Second", "Zero"),
              Fixed("Nanosecond"), ItemSpace(<<>>)>>
        Trailing(r) ==
            IF r.next + SpaceRun(text, r.next) > Len(text)
            THEN to_naive_time(r.got)
            ELSE ParseFailed
        Seconds(a, b) == IF b.ok THEN Trailing(b) ELSE Trailing(a)
        Minutes(a) ==
            IF a.ok
            THEN Seconds(a, ParseItems(text, a.next, SECOND_AND_NANOS, 1, a.got))
            ELSE ParseFailed
    IN  Minutes(ParseItems(text, 1, HOUR_AND_MINUTE, 1, NoFields))

(* caps.get(i).unwrap() on a group that is absent aborts the program *)
Panic == [ok |-> FALSE, err |-> "panic", val |-> <<>>]

(* the placeholder checks left out: the unwraps are reached unguarded *)
MissingPlaceholder_unchecked(fmt) == "None"

(* the placeholder checks in the opposite order: {end} is looked for first *)
MissingPlaceholder_end_first(fmt) ==
    IF find(fmt, EndToken) = None
    THEN "NoEnd"
    ELSE IF find(fmt, StartToken) = None
    THEN "NoStart"
    ELSE "None"

(* span.rs:357-358: the placeholder whose absence is reported, if any *)
MissingPlaceholder(fmt) ==
    IF find(fmt, StartToken) = None
    THEN "NoStart"
    ELSE IF find(fmt, EndToken) = None
    THEN "NoEnd"
    ELSE "None"

(* the captures assigned in input order: the first is always the start *)
SpanFromCaptures_input_order(m1, m2, start_idx, end_idx, start, end) ==
    LET ps == PointParseFromStr(m1, start)
        pe == PointParseFromStr(m2, end)
    IN  IF ~ps.ok
        THEN Err("Parsing")
        ELSE IF ~pe.ok
        THEN Err("Parsing")
        ELSE new(ps.val, pe.val)

(* span.rs:364-374: the captures are assigned by the order of the          *)
(* placeholders in the template, parsed, and handed to Span::new           *)
SpanFromCaptures(m1, m2, start_idx, end_idx, start, end) ==
    LET ps == IF start_idx < end_idx
              THEN PointParseFromStr(m1, start)
              ELSE PointParseFromStr(m2, start)
        pe == IF start_idx < end_idx
              THEN PointParseFromStr(m2, end)
              ELSE PointParseFromStr(m1, end)
    IN  IF ~ps.ok
        THEN Err("Parsing")
        ELSE IF ~pe.ok
        THEN Err("Parsing")
        ELSE new(ps.val, pe.val)

parse_from_str(s, fmt, start, end) ==
    LET re == TemplateRegex(fmt)
    IN  IF ~re.ok
        THEN Err("Regex")
        ELSE LET caps == captures(re, s)
             IN  IF ~caps.found
                 THEN Err("Empty")
                 ELSE IF MissingPlaceholder(fmt) # "None"
                 THEN Err(MissingPlaceholder(fmt))
                 ELSE IF ~HasGroup(caps, 1) \/ ~HasGroup(caps, 2)
                 THEN Panic
                 ELSE SpanFromCaptures(caps.caps[1], caps.caps[2],
                                       find(fmt, StartToken), find(fmt, EndToken),
                                       start, end)

(* Timespan::parse_from_str (timespan.rs:45-72): the same steps, ending in *)
(* Timespan::new                                                           *)
Timespan_parse_from_str(s, fmt, start, end) ==
    LET re == TemplateRegex(fmt)
        caps == captures(re, s)
        start_idx == find(fmt, StartToken)
        end_idx == find(fmt, EndToken)
        ps == PointParseFromStr(IF start_idx < end_idx THEN caps.caps[1] ELSE caps.caps[2],
                                start)
        pe == PointParseFromStr(IF start_idx < end_idx THEN caps.caps[2] ELSE caps.caps[1],
                                end)
    IN  IF ~re.ok
        THEN Err("Regex")
        ELSE IF ~caps.found
        THEN Err("Empty")
        ELSE IF start_idx = None
        THEN Err("NoStart")
        ELSE IF end_idx = None
        THEN Err("NoEnd")
        ELSE IF ~HasGroup(caps, 1) \/ ~HasGroup(caps, 2)
        THEN Panic
        ELSE IF ~ps.ok
        THEN Err("Parsing")
        ELSE IF ~pe.ok
        THEN Err("Parsing")
        ELSE Timespan_new(ps.val, pe.val)

(***************************************************************************)
(* The parsing state machine: the four arguments of one call are drawn     *)
(* from bounded sets of strings, then Span::parse_from_str or              *)
(* Timespan::parse_from_str is applied.  The calls are of two kinds.  In   *)
(* the first the template is any sequence of placeholders and of one       *)
(* literal character, and the input holds two times of day around that     *)
(* character.  In the second the template holds the two placeholders       *)
(* around " - ", in either order, and the point texts and the point        *)
(* specifiers vary: on one side any text under any specifier, on the other *)
(* a time written hh:mm, hhmm or with a fraction of the second under one   *)
(* of the specifiers of these forms.  In the third the template is as long *)
(* as the size limit of Regex::new allows, or longer.                      *)
(***************************************************************************)
(* Bounds: a template has at most MaxTemplate parts, and the two point     *)
(* texts of an input stand around at most MaxInput separator characters.   *)
MaxTemplate == 3
MaxInput == 1

RECURSIVE Concat(_)
Concat(parts) ==
    IF parts = <<>> THEN <<>> ELSE Head(parts) \o Concat(Tail(parts))

(* the literal characters of the templates: a dot (to the pattern, any     *)
(* character), a brace, a backslash, a line feed and a letter of two bytes *)
TemplateChars == {".", "{", "\\", "\n", "U+00E9"}

(* the templates of at most MaxTemplate parts, each a placeholder or the   *)
(* character c                                                             *)
Templates(c) ==
    {Concat(parts) :
        parts \in UNION {[1 .. n -> {StartToken, EndToken, <<c>>}] : n \in 0 .. MaxTemplate}}

(* the point texts of an input: 01:00 and 13:30; 13:30 without the colon;  *)
(* a time with half a second, its fraction in one digit and in three; the  *)
(* leap second; a time after a date; a time of the afternoon; a time with  *)
(* an offset                                                               *)
TimeTexts ==
    {<<"0", "1", ":", "0", "0">>,
     <<"1", "3", ":", "3", "0">>,
     <<"1", "3", "3", "0">>,
     <<"1", "0", ":", "3", "0", ":", "0", "0", ".", "5">>,
     <<"1", "0", ":", "3", "0", ":", "0", "0", ".", "5", "0", "0">>,
     <<"2", "3", ":", "5", "9", ":", "6", "0">>,
     <<"2", "0", "1", "5", "-", "0", "9", "-", "0", "5", " ", "2", "3", ":", "5", "6", ":",
       "0", "4">>,
     <<"0", "1", ":", "3", "0", " ", "P", "M">>,
     <<"1", "3", ":", "3", "0", " ", "+", "0", "1", ":", "0", "0">>}

(* the inputs around the character c: 01:00 or 13:30, at most MaxInput     *)
(* times c, and 01:00 or 13:30                                             *)
Inputs(c) ==
    LET texts == {<<"0", "1", ":", "0", "0">>, <<"1", "3", ":", "3", "0">>}
    IN  {a \o [i \in 1 .. n |-> c] \o b : a \in texts, b \in texts, n \in 0 .. MaxInput}

(* a text of n characters of four bytes each *)
LongText(n) == <<>> \o [i \in 1 .. n |-> "U+1F600"]

(* the least number of characters of four bytes whose pattern is larger    *)
(* than the size limit of Regex::new                                       *)
TooLong == (SizeLimit - ForwardBase) \div (4 * ByteSize) + 1

(* the templates at the size limit: one character of four bytes too many;  *)
(* the longest text that fits and a character of one byte, which fits, or  *)
(* of two bytes, which does not; the two placeholders around a text that   *)
(* does not fit                                                            *)
LongTemplates ==
    {LongText(TooLong),
     LongText(TooLong - 1) \o <<"a">>,
     LongText(TooLong - 1) \o <<"U+00E9">>,
     StartToken \o LongText(TooLong) \o EndToken}

(* the text between the two point texts of the second kind of input *)
Separator == <<" ", "-", " ">>

(* The point specifiers of the calls: hh:mm and hhmm; the time of day with *)
(* a fraction of the second, if it has one, and with one of three digits;  *)
(* %T, hh:mm:ss; a date and a time; the hours of the half day; a time with *)
(* an offset.                                                              *)
PointFormats ==
    {<<"%", "H", ":", "%", "M">>,
     <<"%", "H", "%", "M">>,
     <<"%", "H", ":", "%", "M", ":", "%", "S", "%", ".", "f">>,
     <<"%", "H", ":", "%", "M", ":", "%", "S", "%", ".", "3", "f">>,
     <<"%", "T">>,
     <<"%", "Y", "-", "%", "m", "-", "%", "d", " ", "%", "H", ":", "%", "M", ":", "%", "S">>,
     <<"%", "I", ":", "%", "M", " ", "%", "p">>,
     <<"%", "H", ":", "%", "M", " ", "%", "z">>}

InitParse ==
    /\ s1 = new(from_hms(0, 0, 0), from_hms(0, 0, 1)).val[1]
    /\ s2 = new(from_hms(0, 0, 0), from_hms(0, 0, 1)).val[1]
    /\ \/ \E c \in TemplateChars : \E s \in Inputs(c), fmt \in Templates(c) :
             call = CallRec("arguments", NoSpan, NoSpan,
                            <<s, fmt, <<"%", "H", ":", "%", "M">>, <<"%", "H", ":", "%", "M">>>>,
                            Ok(<<>>))
       \/ \E a \in TimeTexts, b \in TimeTexts, start \in PointFormats, end \in PointFormats,
             fmt \in {StartToken \o Separator \o EndToken, EndToken \o Separator \o StartToken} :
             LET Plain(text, spec) ==
                     /\ text \in {<<"0", "1", ":", "0", "0">>,
                                  <<"1", "3", ":", "3", "0">>,
                                  <<"1", "3", "3", "0">>,
                                  <<"1", "0", ":", "3", "0", ":", "0", "0", ".", "5">>}
                     /\ spec \in {<<"%", "H", ":", "%", "M">>,
                                  <<"%", "H", "%", "M">>,
                                  <<"%", "H", ":", "%", "M", ":", "%", "S", "%", ".", "f">>}
             IN  /\ Plain(a, start) \/ Plain(b, end)
                 /\ call = CallRec("arguments", NoSpan, NoSpan,
                                   <<a \o Separator \o b, fmt, start, end>>, Ok(<<>>))
       \/ \E fmt \in LongTemplates :
             call = CallRec("arguments", NoSpan, NoSpan,
                            <<<<"0", "1", ":", "0", "0">>, fmt,
                              <<"%", "H", ":", "%", "M">>, <<"%", "H", ":", "%", "M">>>>,
                            Ok(<<>>))

(* let s1 = Span::parse_from_str(s, fmt, start, end)? *)
ParseFromStrCall ==
    /\ call.op = "arguments"
    /\ LET Return(r) ==
               /\ call' = CallRec("parse_from_str", NoSpan, NoSpan, call.args, r)
               /\ s1' = IF r.ok THEN r.val[1] ELSE s1
               /\ s2' = s2
       IN  Return(parse_from_str(call.args[1], call.args[2], call.args[3], call.args[4]))

(* let s1 = Timespan::parse_from_str(s, fmt, start, end)? *)
TimespanParseFromStrCall ==
    /\ call.op = "arguments"
    /\ LET Return(r) ==
               /\ call' = CallRec("Timespan::parse_from_str", NoSpan, NoSpan, call.args, r)
               /\ s1' = IF r.ok THEN r.val[1] ELSE s1
               /\ s2' = s2
       IN  Return(Timespan_parse_from_str(call.args[1], call.args[2], call.args[3],
                                          call.args[4]))

NextParse ==
    \/ ParseFromStrCall
    \/ TimespanParseFromStrCall

SpecParse == InitParse /\ [][NextParse]_vars

(***************************************************************************)
(* The default text form of a Span: Display ("{start} - {end}") and        *)
(* FromStr, under SpecFromStr.                                             *)
(***************************************************************************)
(* Display for Span that writes the hyphen without the blanks around it. *)
to_string_tight(self) ==
    PointToString(self.start) \o <<"-">> \o PointToString(self.end)

(* Display (and Debug) for Span: write!(f, "{} - {}", self.start, self.end) *)
to_string(self) ==
    PointToString(self.start) \o Separator \o PointToString(self.end)

(* Display (and Debug) for Timespan (timespan.rs:228-238) *)
Timespan_to_string(self) ==
    PointToString(self.start) \o Separator \o PointToString(self.end)

(* the pattern of from_str compiled: any text, white space, a hyphen,      *)
(* white space, any text                                                   *)
FromStrRegex ==
    Regex(<<Run("any", 0, 1), Run("space", 1, 0), Literal("-"), Run("space", 1, 0),
            Run("any", 0, 2)>>, 2)

(* FromStr for Span *)
from_str(s) ==
    LET caps == captures(FromStrRegex, s)
    IN  IF ~caps.found
        THEN Err("Empty")
        ELSE IF ~HasGroup(caps, 1)
        THEN Err("NoStart")
        ELSE IF ~HasGroup(caps, 2)
        THEN Err("NoEnd")
        ELSE LET ps == PointFromStr(caps.caps[1])
                 pe == PointFromStr(caps.caps[2])
             IN  IF ~ps.ok
                 THEN Err("Parsing")
                 ELSE IF ~pe.ok
                 THEN Err("Parsing")
                 ELSE new(ps.val, pe.val)

(* FromStr for Timespan: the text is split in two at the first hyphen with *)
(* the white space around it (the pieces missing are empty)                *)
Timespan_from_str(s) ==
    LET re == Regex(<<Run("space", 0, 0), Literal("-"), Run("space", 0, 0)>>, 0)
        m == captures(re, s)
        span == IF m.found
                THEN <<SubSeq(s, 1, m.start - 1), SubSeq(s, m.end, Len(s))>>
                ELSE <<s, <<>>>>
        ps == PointFromStr(span[1])
        pe == PointFromStr(span[2])
    IN  IF ~ps.ok
        THEN Err("Parsing")
        ELSE IF ~pe.ok
        THEN Err("Parsing")
        ELSE Timespan_new(ps.val, pe.val)

(* Bound of SpecFromStr: the number of parts of the texts given to         *)
(* from_str.                                                               *)
MaxText == 3

(* the parts of a text: two points as Display writes them, a time of day   *)
(* with a fraction of the second, the leap second, a time of day with      *)
(* short fields, white space and the hyphen                                *)
TextParts ==
    {PointToString(from_hms(1, 0, 0)), PointToString(from_hms(13, 30, 0)),
     PointToString(NaiveTime(37800, 500000000)),
     PointToString(NaiveTime(86399, NANOS_PER_SEC)),
     <<"1", "0", ":", "3", "0", ":", "0", "0", ".", "5">>,
     <<"2", ":", "5">>, <<" ">>, <<"\f">>, <<"-">>}

Texts ==
    {Concat(parts) : parts \in UNION {[1 .. n -> TextParts] : n \in 0 .. MaxText}}

(* the Spans that Span::new builds of the points written as text *)
Spans ==
    {new(pq[1], pq[2]).val[1] : pq \in {pq \in Points \X Points : pq[1] \prec pq[2]}}

(* The program holds a Span built by Span::new and a text to parse: any    *)
(* Span with the text of two times of day, or any text with the Span of    *)
(* one second.                                                             *)
InitFromStr ==
    /\ \/ /\ s1 \in Spans
          /\ call = CallRec("arguments", NoSpan, NoSpan,
                            <<PointToString(from_hms(1, 0, 0)) \o Separator
                                \o PointToString(from_hms(13, 30, 0))>>,
                            Ok(<<>>))
       \/ /\ s1 = new(from_hms(0, 0, 0), from_hms(0, 0, 1)).val[1]
          /\ \E s \in Texts :
                call = CallRec("arguments", NoSpan, NoSpan, <<s>>, Ok(<<>>))
    /\ s2 = s1

(* let text = s1.to_string() *)
ToStringCall ==
    /\ call.op = "arguments"
    /\ call' = CallRec("to_string", s1, NoSpan, <<to_string(s1)>>, Ok(<<>>))
    /\ s1' = s1
    /\ s2' = s2

(* let s2 = Span::from_str(text)?  -- of the text given, or of the text    *)
(* to_string wrote                                                         *)
FromStrCall ==
    /\ call.op \in {"arguments", "to_string"}
    /\ LET Return(r) ==
               /\ call' = CallRec("from_str", call.self, NoSpan, call.args, r)
               /\ s1' = s1
               /\ s2' = IF r.ok THEN r.val[1] ELSE s2
       IN  Return(from_str(call.args[1]))

(* let text = t.to_string(), t a Timespan *)
TimespanToStringCall ==
    /\ call.op = "arguments"
    /\ call' = CallRec("Timespan::to_string", s1, NoSpan, <<Timespan_to_string(s1)>>, Ok(<<>>))
    /\ s1' = s1
    /\ s2' = s2

(* let s2 = Timespan::from_str(text)? *)
TimespanFromStrCall ==
    /\ call.op \in {"arguments", "Timespan::to_string"}
    /\ LET Return(r) ==
               /\ call' = CallRec("Timespan::from_str", call.self, NoSpan, call.args, r)
               /\ s1' = s1
               /\ s2' = IF r.ok THEN r.val[1] ELSE s2
       IN  Return(Timespan_from_str(call.args[1]))

NextFromStr ==
    \/ ToStringCall
    \/ FromStrCall
    \/ TimespanToStringCall
    \/ TimespanFromStrCall

SpecFromStr == InitFromStr /\ [][NextFromStr]_vars

(***************************************************************************)
(* Span::format and the rendering of a DelayedFormat (delayed_format.rs),  *)
(* under SpecFormat: a Span is formatted with a template and two point     *)
(* specifiers, the DelayedFormat is rendered, and the text is parsed back. *)
(***************************************************************************)
(* Whether str::replace replaces an occurrence of from at i: the           *)
(* occurrences replaced are those, from the left, that begin outside the   *)
(* ones replaced before them.                                              *)
RECURSIVE Replaces(_, _, _)
Replaces(text, i, from) ==
    /\ PrefixAt(text, i, from)
    /\ ~\E j \in 1 .. Len(from) - 1 : i - j >= 1 /\ Replaces(text, i - j, from)

(* str::replace: every occurrence of from, left to right *)
replace(text, from, to) ==
    Flatten([i \in 1 .. Len(text) |->
                IF Replaces(text, i, from)
                THEN to
                ELSE IF \E j \in 1 .. Len(from) - 1 : i - j >= 1 /\ Replaces(text, i - j, from)
                THEN <<>>
                ELSE <<text[i]>>],
            1, Len(text))

(* struct DelayedFormat *)
DelayedFormat(span, fmt, start, end) ==
    [span |-> span, fmt |-> fmt, start |-> start, end |-> end]

(* Span::format *)
format(self, fmt, start, end) == DelayedFormat(self, fmt, start, end)

(* Timespan::format (timespan.rs:74-81) *)
Timespan_format(self, fmt, start, end) == DelayedFormat(self, fmt, start, end)

(* Display::fmt that writes the start text to f before the end is rendered. *)
DelayedFormat_fmt_streaming(self, f) ==
    LET start_fmt == PointFormat(self.span.start, self.start)
        end_fmt == PointFormat(self.span.end, self.end)
    IN  IF ~start_fmt.ok
        THEN [ok |-> FALSE, f |-> f]
        ELSE IF ~end_fmt.ok
        THEN [ok |-> FALSE, f |-> f \o start_fmt.out]
        ELSE LET r1 == replace(self.fmt, StartToken, start_fmt.out)
                 r2 == replace(r1, EndToken, end_fmt.out)
             IN  [ok |-> TRUE, f |-> f \o r2]

(* Display for DelayedFormat<T> (delayed_format.rs): fmt(&self, f), f      *)
(* being the text written so far; the result is the fmt::Result and the    *)
(* text in f afterwards.                                                   *)
DelayedFormat_fmt(self, f) ==
    LET start_fmt == PointFormat(self.span.start, self.start)
        end_fmt == PointFormat(self.span.end, self.end)
    IN  IF ~start_fmt.ok
        THEN [ok |-> FALSE, f |-> f]
        ELSE IF ~end_fmt.ok
        THEN [ok |-> FALSE, f |-> f]
        ELSE LET r1 == replace(self.fmt, StartToken, start_fmt.out)
                 r2 == replace(r1, EndToken, end_fmt.out)
             IN  [ok |-> TRUE, f |-> f \o r2]

(* The point specifiers of Span::format: hh:mm, hhmm and hh.mm; the whole  *)
(* time of day, %T, and with the fraction of the second; the minute alone; *)
(* the hours of the half day, as in the example of the crate; one that     *)
(* writes a line feed; one that cannot be rendered for the point type; one *)
(* that is the literal text {end}, and one that ends in it.                *)
FormatSpecs ==
    {<<"%", "H", ":", "%", "M">>,
     <<"%", "H", "%", "M">>,
     <<"%", "H", ".", "%", "M">>,
     <<"%", "T">>,
     <<"%", "T", "%", ".", "f">>,
     <<"%", "M">>,
     <<"%", "I", ".", "%", "M", " ", "%", "P">>,
     <<"%", "H", "%", "n", "%", "M">>,
     <<"%", "Y">>,
     EndToken,
     <<"%", "H", ":", "%", "M">> \o EndToken}

(* the templates that the point specifiers are varied with *)
FormatTemplates ==
    {StartToken \o Separator \o EndToken,
     EndToken \o Separator \o StartToken,
     StartToken \o <<".">> \o EndToken,
     StartToken}

(* The program holds a Span built by Span::new and the three arguments of  *)
(* Span::format: any template of the parser with the specifier of the      *)
(* whole time of day with its fraction, or a template of FormatTemplates   *)
(* with any two specifiers of FormatSpecs, or, for one Span, a template    *)
(* too long for Regex::new.                                                *)
InitFormat ==
    /\ s1 \in Spans
    /\ s2 = s1
    /\ \/ \E c \in TemplateChars : \E fmt \in Templates(c) :
             call = CallRec("arguments", NoSpan, NoSpan,
                            <<fmt, <<"%", "T", "%", ".", "f">>, <<"%", "T", "%", ".", "f">>>>,
                            Ok(<<>>))
       \/ \E fmt \in FormatTemplates, start \in FormatSpecs, end \in FormatSpecs :
             call = CallRec("arguments", NoSpan, NoSpan, <<fmt, start, end>>, Ok(<<>>))
       \/ /\ s1 = new(from_hms(1, 0, 0), from_hms(13, 30, 0)).val[1]
          /\ call = CallRec("arguments", NoSpan, NoSpan,
                            <<StartToken \o LongText(TooLong) \o EndToken,
                              <<"%", "T">>, <<"%", "T">>>>,
                            Ok(<<>>))

(* let d = s1.format(fmt, start, end) *)
FormatCall ==
    /\ call.op = "arguments"
    /\ call' = CallRec("format", s1, NoSpan, call.args,
                       Value(format(s1, call.args[1], call.args[2], call.args[3])))
    /\ s1' = s1
    /\ s2' = s2

(* let d = t.format(fmt, start, end), t a Timespan; the DelayedFormat of a *)
(* Timespan has no Display and is not rendered                             *)
TimespanFormatCall ==
    /\ call.op = "arguments"
    /\ call' = CallRec("Timespan::format", s1, NoSpan, call.args,
                       Value(Timespan_format(s1, call.args[1], call.args[2], call.args[3])))
    /\ s1' = s1
    /\ s2' = s2

(* let mut b = String::new(); b.write_fmt(format_args!("{}", d)), d the    *)
(* DelayedFormat of a Span -- the result carries, in ret, the text in b    *)
(* afterwards                                                              *)
RenderCall ==
    /\ call.op = "format"
    /\ LET Return(r) ==
               call' = CallRec("fmt", call.res.ret.span, NoSpan, call.args,
                               [ok |-> r.ok,
                                err |-> IF r.ok THEN "None" ELSE "fmt::Error",
                                val |-> <<>>,
                                ret |-> r.f])
       IN  Return(DelayedFormat_fmt(call.res.ret, <<>>))
    /\ s1' = s1
    /\ s2' = s2

(* let s2 = Span::parse_from_str(&b, fmt, start, end)?  -- the text just   *)
(* rendered, with the template and the specifiers it was rendered with     *)
ParseRenderedCall ==
    /\ call.op = "fmt"
    /\ call.res.ok
    /\ LET Return(r) ==
               /\ call' = CallRec("parse_from_str", call.self, NoSpan,
                                  <<call.res.ret>> \o call.args, r)
               /\ s1' = s1
               /\ s2' = IF r.ok THEN r.val[1] ELSE s2
       IN  Return(parse_from_str(call.res.ret, call.args[1], call.args[2], call.args[3]))

NextFormat ==
    \/ FormatCall
    \/ TimespanFormatCall
    \/ RenderCall
    \/ ParseRenderedCall

SpecFormat == InitFormat /\ [][NextFormat]_vars

(***************************************************************************)
(* Properties                                                              *)
(***************************************************************************)
Valid(sp) == sp.start \prec sp.end

Displacements == {"append", "prepend", "pop", "shift"}

Touching(a, b) == a.end = b.start \/ b.end = a.start

Gap(a, b) == a.end \prec b.start \/ b.end \prec a.start

(* the sum and the difference of a point and a duration, and the time from *)
(* one point to another, in exact arithmetic: nothing wraps around         *)
(* midnight                                                                *)
Plus(p, d) == NaiveTime(p.secs + d.secs, p.frac + d.nanos)

Minus(p, d) == NaiveTime(p.secs - d.secs, p.frac - d.nanos)

Elapsed(p, q) ==
    Duration(p.secs - q.secs + ((p.frac - q.frac) \div NANOS_PER_SEC),
             (p.frac - q.frac) % NANOS_PER_SEC)

(* C1: every Span the program holds, and every Span a call returned, has   *)
(* start < end strictly, whatever calls were made and whether they failed. *)
StartBeforeEnd ==
    /\ Valid(s1)
    /\ Valid(s2)
    /\ \A i \in 1 .. Len(call.res.val) : Valid(call.res.val[i])

(* a successful pop has shrunk the receiver to the smallest width *)
StartBeforeEndWitness ==
    /\ call.op = "pop"
    /\ call.res.ok
    /\ Elapsed(s1.end, s1.start) = seconds(1)
    /\ call.self.end \succ s1.end

(* C2: Span::new(start, end) fails, with Error::Ordering, iff start >= end; *)
(* otherwise it returns the Span holding exactly start and end.            *)
NewOrdering ==
    call.op = "new" =>
        LET p == call.args[1]
            q == call.args[2]
        IN  /\ ~call.res.ok <=> p \succeq q
            /\ ~call.res.ok => call.res = Err("Ordering")
            /\ call.res.ok => call.res.val = <<[start |-> p, end |-> q]>>

(* Span::new was called with start = end and failed *)
NewOrderingWitness ==
    /\ call.op = "new"
    /\ call.args[1] = call.args[2]
    /\ call.res = Err("Ordering")

(* C3: a displacement operation that fails returns Error::Empty and leaves *)
(* start and end (and every other Span) exactly as they were before it, so *)
(* a later operation starts from the state the failed call found.          *)
AtomicOnFailure ==
    [][(call'.op \in Displacements /\ ~call'.res.ok) =>
            /\ call'.res.err = "Empty"
            /\ s1' = s1
            /\ s2' = s2
            /\ call'.self = s1]_vars

(* append with a negative duration that would invert the order has failed *)
AtomicOnFailureWitness ==
    /\ call.op = "append"
    /\ call.args[1].secs < 0
    /\ call.res = Err("Empty")
    /\ s1 = call.self

Committed(before, after) ==
    IF after.start \prec after.end
    THEN call.res = Ok(<<>>) /\ s1 = after
    ELSE call.res = Err("Empty") /\ s1 = before

(* C4: each displacement operation computes one new endpoint (append:      *)
(* end + d, pop: end - d, prepend: start - d, shift: start + d), commits   *)
(* it iff start < end still holds and otherwise returns Error::Empty; the  *)
(* other endpoint never changes, and a negative d reverses the direction.  *)
DisplacementExact ==
    call.op \in Displacements =>
        LET x == call.self
            d == call.args[1]
        IN  /\ call.op = "append" => Committed(x, [start |-> x.start, end |-> Plus(x.end, d)])
            /\ call.op = "pop" => Committed(x, [start |-> x.start, end |-> Minus(x.end, d)])
            /\ call.op = "prepend" => Committed(x, [start |-> Minus(x.start, d), end |-> x.end])
            /\ call.op = "shift" => Committed(x, [start |-> Plus(x.start, d), end |-> x.end])
            /\ call.op \in {"append", "pop"} => s1.start = x.start
            /\ call.op \in {"prepend", "shift"} => s1.end = x.end
            /\ (call.op = "pop" /\ d.secs < 0 /\ call.res.ok) => s1.end \succ x.end
            /\ (call.op = "append" /\ d.secs < 0 /\ call.res.ok) => s1.end \prec x.end

(* C5: difference fails with Error::Empty iff self lies inside other with  *)
(* inclusive bounds, with Error::NotContinuous iff other lies strictly     *)
(* inside self on both sides, and succeeds in every other situation.       *)
DifferenceFailures ==
    call.op = "difference" =>
        LET a == call.self
            b == call.other
            inside == a.start \succeq b.start /\ a.end \preceq b.end
            around == a.start \prec b.start /\ b.end \prec a.end
        IN  /\ call.res = Err("Empty") <=> inside
            /\ call.res = Err("NotContinuous") <=> around
            /\ call.res.ok <=> (~inside /\ ~around)

(* the difference of two equal Spans was asked for *)
DifferenceFailuresWitness ==
    /\ call.op = "difference"
    /\ call.self = call.other
    /\ call.res = Err("Empty")

(* C6: difference returns self unchanged when the Spans do not overlap     *)
(* (touching included), {self.start, other.start} when self overlaps only  *)
(* the start of other, {other.end, self.end} when self overlaps only the   *)
(* end of other (self.start = other.start included); it succeeds in no     *)
(* other case.                                                             *)
DifferenceResult ==
    call.op = "difference" =>
        LET a == call.self
            b == call.other
            apart == a.end \preceq b.start \/ a.start \succeq b.end
            overStart == a.start \prec b.start /\ b.start \prec a.end /\ a.end \preceq b.end
            overEnd == b.start \preceq a.start /\ a.start \prec b.end /\ b.end \prec a.end
        IN  /\ apart => call.res = Ok(<<a>>)
            /\ overStart => call.res = Ok(<<[start |-> a.start, end |-> b.start]>>)
            /\ overEnd => call.res = Ok(<<[start |-> b.end, end |-> a.end]>>)
            /\ call.res.ok => (apart \/ overStart \/ overEnd)

(* self and other start together and self ends later *)
DifferenceResultWitness ==
    /\ call.op = "difference"
    /\ call.self.start = call.other.start
    /\ call.self.end \succ call.other.end
    /\ call.res = Ok(<<[start |-> call.other.end, end |-> call.self.end]>>)

(* C7: symmetric_difference succeeds only for exactly adjacent Spans and   *)
(* then returns the Span from the earlier start to the later end; every    *)
(* other pair yields Error::NotContinuous.                                 *)
SymmetricDifferenceAdjacent ==
    call.op = "symmetric_difference" =>
        LET a == call.self
            b == call.other
            lo == IF a.start \prec b.start THEN a.start ELSE b.start
            hi == IF a.end \succ b.end THEN a.end ELSE b.end
        IN  IF Touching(a, b)
            THEN call.res = Ok(<<[start |-> lo, end |-> hi]>>)
            ELSE call.res = Err("NotContinuous")

(* other ends where self starts, and the two were concatenated *)
SymmetricDifferenceAdjacentWitness ==
    /\ call.op = "symmetric_difference"
    /\ call.other.end = call.self.start
    /\ call.res = Ok(<<[start |-> call.other.start, end |-> call.self.end]>>)

(* C8 as stated: intersection yields Error::Empty for Spans that only      *)
(* touch and Error::NotContinuous for Spans separated by a gap.            *)
IntersectionTwoFailureKinds ==
    call.op = "intersection" =>
        /\ Touching(call.self, call.other) => call.res = Err("Empty")
        /\ Gap(call.self, call.other) => call.res = Err("NotContinuous")

(* C8, amended: intersection has a single failure kind; Spans that only    *)
(* touch and Spans separated by a gap both yield Error::Empty, and it      *)
(* never returns Error::NotContinuous.                                     *)
IntersectionOneFailureKind ==
    call.op = "intersection" =>
        /\ Touching(call.self, call.other) => call.res = Err("Empty")
        /\ Gap(call.self, call.other) => call.res = Err("Empty")
        /\ call.res.err # "NotContinuous"

(* the intersection of two Spans separated by a gap was asked for *)
IntersectionOneFailureKindWitness ==
    /\ call.op = "intersection"
    /\ Gap(call.self, call.other)
    /\ call.res = Err("Empty")

(* C9: intersection succeeds exactly when the Spans overlap with positive  *)
(* width and then returns {max of the starts, min of the ends}; touching   *)
(* or separated Spans always produce an error.                             *)
IntersectionResult ==
    call.op = "intersection" =>
        LET a == call.self
            b == call.other
            overlap == a.end \succ b.start /\ b.end \succ a.start
            lo == IF a.start \succ b.start THEN a.start ELSE b.start
            hi == IF a.end \prec b.end THEN a.end ELSE b.end
        IN  /\ overlap => call.res = Ok(<<[start |-> lo, end |-> hi]>>)
            /\ ~overlap => ~call.res.ok

(* a partial overlap: the result is neither operand *)
IntersectionResultWitness ==
    /\ call.op = "intersection"
    /\ call.res.ok
    /\ call.res.val[1] # call.self
    /\ call.res.val[1] # call.other

(* C10: whenever a.intersection(b) and b.intersection(a) both succeed they *)
(* return equal Spans.                                                     *)
IntersectionCommutes ==
    (call.op = "intersection" /\ call.res.ok /\ intersection(call.other, call.self).ok) =>
        call.res.val = intersection(call.other, call.self).val

(* both orders succeed on two different, partially overlapping Spans *)
IntersectionCommutesWitness ==
    /\ call.op = "intersection"
    /\ call.res.ok
    /\ intersection(call.other, call.self).ok
    /\ call.self.start \prec call.other.start
    /\ call.self.end \prec call.other.end

(* C11: union fails with Error::NotContinuous iff the Spans are separated  *)
(* by a true gap; otherwise (touching included) it returns {min of the     *)
(* starts, max of the ends}; a.union(b) and b.union(a) have the same       *)
(* outcome.                                                                *)
UnionResult ==
    call.op = "union" =>
        LET a == call.self
            b == call.other
            lo == IF a.start \prec b.start THEN a.start ELSE b.start
            hi == IF a.end \succ b.end THEN a.end ELSE b.end
        IN  /\ IF Gap(a, b)
               THEN call.res = Err("NotContinuous")
               ELSE call.res = Ok(<<[start |-> lo, end |-> hi]>>)
            /\ union(b, a) = call.res

(* two Spans that touch at an endpoint were merged *)
UnionResultWitness ==
    /\ call.op = "union"
    /\ call.other.end = call.self.start
    /\ call.res = Ok(<<[start |-> call.other.start, end |-> call.self.end]>>)

(* C12: contains(point) is true iff start <= point <= end; a Span contains *)
(* its own start and end, and no point before start or after end.          *)
ContainsInclusive ==
    call.op = "contains" =>
        LET a == call.self
            p == call.args[1]
        IN  /\ call.res.ret <=> (a.start \preceq p /\ p \preceq a.end)
            /\ (p = a.start \/ p = a.end) => call.res.ret
            /\ (p \prec a.start \/ p \succ a.end) => ~call.res.ret
            /\ contains(a, a.start) /\ contains(a, a.end)

(* a Span was asked whether it contains its own end *)
ContainsInclusiveWitness ==
    /\ call.op = "contains"
    /\ call.args[1] = call.self.end
    /\ call.res.ret

(* C13: is_disjoint(other) is true iff self.end <= other.start or          *)
(* self.start >= other.end, so Spans touching at one endpoint are          *)
(* disjoint; the result is the same with the operands exchanged.           *)
IsDisjointTouching ==
    call.op = "is_disjoint" =>
        LET a == call.self
            b == call.other
        IN  /\ call.res.ret <=> (a.end \preceq b.start \/ a.start \succeq b.end)
            /\ Touching(a, b) => call.res.ret
            /\ is_disjoint(b, a) = call.res.ret

(* two touching Spans were reported disjoint *)
IsDisjointTouchingWitness ==
    /\ call.op = "is_disjoint"
    /\ call.self.end = call.other.start
    /\ call.res.ret

(* C14: is_subset(other) is true iff self.start >= other.start and         *)
(* self.end <= other.end; a.is_superset(b) = b.is_subset(a); every Span is *)
(* a subset and a superset of itself.                                      *)
SubsetSupersetMirror ==
    /\ call.op = "is_subset" =>
          LET a == call.self
              b == call.other
          IN  /\ call.res.ret <=> (a.start \succeq b.start /\ a.end \preceq b.end)
              /\ is_superset(b, a) = call.res.ret
              /\ a = b => call.res.ret
    /\ call.op = "is_superset" =>
          LET a == call.self
              b == call.other
          IN  /\ is_subset(b, a) = call.res.ret
              /\ a = b => call.res.ret

(* is_superset was asked of two Spans that share their start *)
SubsetSupersetMirrorWitness ==
    /\ call.op = "is_superset"
    /\ call.self.start = call.other.start
    /\ call.self.end \succ call.other.end
    /\ call.res.ret

(* C15: split_off(at) fails with Error::OutOfRange unless start < at < end *)
(* strictly; on success it returns ({start, at}, {at, end}); the call      *)
(* itself leaves the receiver as it was (only the caller keeping a         *)
(* returned half replaces a held Span).                                    *)
SplitOffStrict ==
    [][call'.op = "split_off" =>
            LET x == s1
                at == call'.args[1]
                left == [start |-> x.start, end |-> at]
                right == [start |-> at, end |-> x.end]
            IN  /\ call'.self = x
                /\ IF x.start \prec at /\ at \prec x.end
                   THEN /\ call'.res = Ok(<<left, right>>)
                        /\ s1' \in {x, left}
                        /\ s2' \in {s2, right}
                   ELSE /\ call'.res = Err("OutOfRange")
                        /\ s1' = x
                        /\ s2' = s2]_vars

(* a split at the start of the Span was refused *)
SplitOffStrictWitness ==
    /\ call.op = "split_off"
    /\ call.args[1] = call.self.start
    /\ call.res = Err("OutOfRange")
    /\ s1 = call.self

(* C16: duration() returns end - start, and it is never negative for a     *)
(* Span reachable from Span::new by any calls, successful or failed.       *)
DurationNonNegative ==
    /\ call.op = "duration" =>
          /\ call.res.ret = Elapsed(call.self.end, call.self.start)
          /\ call.res.ret.secs >= 0
    /\ duration(s1).secs >= 0
    /\ duration(s2).secs >= 0

(* the duration of a Span shortened by a displacement was taken *)
DurationNonNegativeWitness ==
    /\ call.op = "duration"
    /\ call.res.ret = seconds(1)
    /\ call.self = s1

(***************************************************************************)
(* Properties of Span::parse_from_str (under SpecParse)                    *)
(***************************************************************************)
Parsed == call.op = "parse_from_str"

Has(text, token) == \E i \in 1 .. Len(text) : PrefixAt(text, i, token)

Contains(text, part) == \E i \in 1 .. Len(text) + 1 : PrefixAt(text, i, part)

Count(text, token) == Cardinality({i \in 1 .. Len(text) : PrefixAt(text, i, token)})

Chars(text) == {text[i] : i \in 1 .. Len(text)}

(* the place of the first occurrence of a token that the text holds,       *)
(* counted in characters from 1                                            *)
Place(text, token) ==
    CHOOSE i \in 1 .. Len(text) :
        PrefixAt(text, i, token) /\ \A j \in 1 .. i - 1 : ~PrefixAt(text, j, token)

(* the captures of the call's input under the call's template *)
CallCaptures == captures(TemplateRegex(call.args[2]), call.args[1])

(* the template's pattern was compiled and the input matches it *)
Matched ==
    LET Found(re) == re.ok /\ captures(re, call.args[1]).found
    IN  Found(TemplateRegex(call.args[2]))

SpanOrOrdering(p, q) ==
    IF p \prec q THEN Ok(<<[start |-> p, end |-> q]>>) ELSE Err("Ordering")

(* a specifier under which the point is rendered and parsed back *)
RoundTrips(spec, p) ==
    /\ PointFormat(p, spec).ok
    /\ PointParseFromStr(PointFormat(p, spec).out, spec) = [ok |-> TRUE, val |-> p]

(* the texts that stand between the two placeholders of a template with a  *)
(* mirror image: " - " and each single character of the templates          *)
Separators == {Separator} \cup {<<c>> : c \in TemplateChars}

(* C17: the two captures are assigned by placeholder position, not by      *)
(* input order: with {start} before {end} the first capture is parsed as   *)
(* start (under the start specifier) and the second as end (under the end  *)
(* specifier), with {end} first the second capture is the start and the    *)
(* first the end.  So, for a text t that occurs once in the input,         *)
(* "{start}t{end}" on "a t b" and "{end}t{start}" on "b t a" have one      *)
(* outcome; and where a is the start p and b the end q as their specifiers *)
(* write and read them, either call returns Span::new(p, q).               *)
CapturesByPlaceholderOrder ==
    (Parsed /\ Has(call.args[2], StartToken) /\ Has(call.args[2], EndToken)) =>
        LET s == call.args[1]
            fmt == call.args[2]
            startFirst == Place(fmt, StartToken) < Place(fmt, EndToken)
            (* the result, from the start and the end as they were parsed *)
            Returned(ps, pe) ==
                IF ps.ok /\ pe.ok
                THEN call.res = SpanOrOrdering(ps.val, pe.val)
                ELSE call.res = Err("Parsing")
            (* the result, from the captures of a match *)
            Assigned(caps) ==
                /\ Len(caps) >= 2
                /\ Returned(PointParseFromStr(IF startFirst THEN caps[1] ELSE caps[2],
                                              call.args[3]),
                            PointParseFromStr(IF startFirst THEN caps[2] ELSE caps[1],
                                              call.args[4]))
            (* the input holds st in the place of {start} and en in the    *)
            (* place of {end}, around t; mirror is the input and other the *)
            (* template with the two exchanged                             *)
            Sides(t, st, en, mirror, other) ==
                /\ Count(mirror, t) = 1 =>
                       call.res = parse_from_str(mirror, other, call.args[3], call.args[4])
                /\ \A p \in Points :
                       (st = PointFormat(p, call.args[3]).out /\ RoundTrips(call.args[3], p)) =>
                           \A q \in Points :
                               (/\ en = PointFormat(q, call.args[4]).out
                                /\ RoundTrips(call.args[4], q)) =>
                                   call.res = SpanOrOrdering(p, q)
            Around(t, a, b, other) ==
                IF startFirst
                THEN Sides(t, a, b, b \o t \o a, other)
                ELSE Sides(t, b, a, b \o t \o a, other)
            Once(t, other) ==
                Count(s, t) = 1 =>
                    Around(t, SubSeq(s, 1, Place(s, t) - 1),
                           SubSeq(s, Place(s, t) + Len(t), Len(s)), other)
            (* what holds when the pattern was compiled and the input      *)
            (* matches it, c being the captures                            *)
            Captured(c) ==
                c.found =>
                    /\ Assigned(c.caps)
                    /\ \A t \in Separators :
                           /\ fmt = StartToken \o t \o EndToken =>
                                  Once(t, EndToken \o t \o StartToken)
                           /\ fmt = EndToken \o t \o StartToken =>
                                  Once(t, StartToken \o t \o EndToken)
        IN  TemplateRegex(fmt).ok => Captured(CallCaptures)

(* "1330 - 01:00" parsed under "{end} - {start}", the start as hh:mm and   *)
(* the end as hhmm, gave the Span from 01:00 to 13:30                      *)
CapturesByPlaceholderOrderWitness ==
    /\ Parsed
    /\ call.args[1] = <<"1", "3", "3", "0", " ", "-", " ", "0", "1", ":", "0", "0">>
    /\ call.args[2] = EndToken \o Separator \o StartToken
    /\ call.args[3] = <<"%", "H", ":", "%", "M">>
    /\ call.args[4] = <<"%", "H", "%", "M">>
    /\ call.res = Ok(<<[start |-> from_hms(1, 0, 0), end |-> from_hms(13, 30, 0)]>>)

(* C18: parse_from_str never succeeds with a template that lacks a         *)
(* placeholder; when the input matches the pattern, a template without     *)
(* {start} yields Error::NoStart (also when {end} is missing too) and one  *)
(* with {start} but without {end} yields Error::NoEnd.                     *)
MissingPlaceholderErrors ==
    Parsed =>
        LET fmt == call.args[2]
            noStart == ~Has(fmt, StartToken)
            noEnd == ~Has(fmt, EndToken)
        IN  /\ (noStart \/ noEnd) => ~call.res.ok
            /\ (noStart /\ Matched) => call.res = Err("NoStart")
            /\ (~noStart /\ noEnd /\ Matched) => call.res = Err("NoEnd")

(* a matching input under a template with {start} only *)
MissingPlaceholderErrorsWitness ==
    /\ Parsed
    /\ call.args[2] = StartToken \o <<".">>
    /\ call.args[1] = <<"0", "1", ":", "0", "0", ".", "1", "3", ":", "3", "0">>
    /\ call.res = Err("NoEnd")

(* C19 as stated: with a template that contains neither placeholder,       *)
(* parse_from_str fails with Error::Empty for every input.                 *)
NoPlaceholderAlwaysEmpty ==
    (Parsed /\ ~Has(call.args[2], StartToken) /\ ~Has(call.args[2], EndToken)) =>
        call.res = Err("Empty")

(* C19, amended: with a template that contains neither placeholder,        *)
(* parse_from_str always fails: with Error::Regex when Regex::new refuses  *)
(* the template's pattern, which is then larger than the size limit of the *)
(* regex crate, and else with Error::NoStart when the input contains the   *)
(* template's text (so for every input when the template is empty) and     *)
(* with Error::Empty when it does not.                                     *)
NoPlaceholderEmptyOrNoStart ==
    (Parsed /\ ~Has(call.args[2], StartToken) /\ ~Has(call.args[2], EndToken)) =>
        IF len(call.args[2]) > (SizeLimit - ForwardBase) \div ByteSize
        THEN call.res = Err("Regex")
        ELSE IF Contains(call.args[1], call.args[2])
        THEN call.res = Err("NoStart")
        ELSE call.res = Err("Empty")

(* the input contains the text of a template without placeholders *)
NoPlaceholderEmptyOrNoStartWitness ==
    /\ Parsed
    /\ call.args[2] = <<".">>
    /\ call.args[1] = <<"0", "1", ":", "0", "0", ".", "1", "3", ":", "3", "0">>
    /\ call.res = Err("NoStart")

(* a template without placeholders was refused by Regex::new: it holds one *)
(* character more than the longest text of such characters that fits       *)
NoPlaceholderRegexReached ==
    /\ Parsed
    /\ call.res = Err("Regex")
    /\ call.args[2] = LongText(TooLong)
    /\ TemplateRegex(SubSeq(call.args[2], 2, TooLong) \o <<"a">>).ok

(* C20: parse_from_str never aborts: every failure is an Error value, and  *)
(* whenever both placeholders were found in the template and the input     *)
(* matched, capture groups 1 and 2 exist.                                  *)
ParseNeverAborts ==
    Parsed =>
        /\ call.res # Panic
        /\ call.res.err \in {"None", "Regex", "Empty", "NoStart", "NoEnd", "Parsing", "Ordering"}
        /\ (Has(call.args[2], StartToken) /\ Has(call.args[2], EndToken)) =>
               LET Captured(c) == c.found => Len(c.caps) >= 2
               IN  TemplateRegex(call.args[2]).ok => Captured(CallCaptures)

(* both unwraps were passed: adjacent placeholders, the second capture empty *)
ParseNeverAbortsWitness ==
    /\ Parsed
    /\ call.args[2] = StartToken \o EndToken
    /\ call.args[1] = <<"0", "1", ":", "0", "0", "1", "3", ":", "3", "0">>
    /\ CallCaptures.caps = <<call.args[1], <<>>>>
    /\ call.res = Err("Parsing")

(***************************************************************************)
(* Relations between the operations of Span                                *)
(***************************************************************************)
(* the times of day that both Spans contain *)
CommonPoints(a, b) == {p \in Times : contains(a, p) /\ contains(b, p)}

(* C26 as stated: whenever a.is_disjoint(b) returns true there is no point *)
(* p for which both a.contains(p) and b.contains(p) are true.              *)
DisjointNoCommonPoint ==
    (call.op = "is_disjoint" /\ call.res.ret) =>
        CommonPoints(call.self, call.other) = {}

(* C26, amended: whenever a.is_disjoint(b) returns true, the only point    *)
(* both Spans can contain is the endpoint at which they touch (a.end =     *)
(* b.start or b.end = a.start); Spans that do not touch have no common     *)
(* point.                                                                  *)
DisjointShareOnlyTouchPoint ==
    (call.op = "is_disjoint" /\ call.res.ret) =>
        LET a == call.self
            b == call.other
        IN  /\ \A p \in CommonPoints(a, b) :
                  \/ p = a.end /\ p = b.start
                  \/ p = b.end /\ p = a.start
            /\ ~Touching(a, b) => CommonPoints(a, b) = {}

(* two disjoint Spans both contain the point at which they touch *)
DisjointShareOnlyTouchPointWitness ==
    /\ call.op = "is_disjoint"
    /\ call.res.ret
    /\ call.self.end = call.other.start
    /\ CommonPoints(call.self, call.other) = {call.self.end}

(* C27: whenever a.difference(b) succeeds with result r, r.is_subset(a)    *)
(* and r.is_disjoint(b) hold, and every point that lies in a and strictly  *)
(* outside b is contained in r.                                            *)
DifferenceCoversRest ==
    (call.op = "difference" /\ call.res.ok) =>
        LET a == call.self
            b == call.other
            r == call.res.val[1]
        IN  /\ Len(call.res.val) = 1
            /\ is_subset(r, a)
            /\ is_disjoint(r, b)
            /\ \A p \in Times :
                  (contains(a, p) /\ (p \prec b.start \/ p \succ b.end)) => contains(r, p)

(* a difference that cut off the end of a: the part before b is left *)
DifferenceCoversRestWitness ==
    /\ call.op = "difference"
    /\ call.res.ok
    /\ call.res.val[1] # call.self
    /\ call.self.start \prec call.other.start
    /\ contains(call.res.val[1], call.self.start)
    /\ is_disjoint(call.res.val[1], call.other)

(* C28: with exact point arithmetic the displacement operations are        *)
(* mutual inverses: after a successful append(d), pop(d) succeeds and      *)
(* restores the Span, and likewise prepend(d) followed by shift(d); pop(d) *)
(* has the same outcome as append(-d) and shift(d) as prepend(-d).         *)
DisplacementInverses ==
    call.op \in Displacements =>
        LET x == call.self
            d == call.args[1]
            done == [res |-> call.res, self |-> s1]
            restored == [res |-> Ok(<<>>), self |-> x]
        IN  /\ (call.op = "append" /\ call.res.ok) => pop(s1, d) = restored
            /\ (call.op = "prepend" /\ call.res.ok) => shift(s1, d) = restored
            /\ call.op = "pop" => append(x, Neg(d)) = done
            /\ call.op = "shift" => prepend(x, Neg(d)) = done
            /\ call.op = "append" => pop(x, Neg(d)) = done
            /\ call.op = "prepend" => shift(x, Neg(d)) = done

(* a prepend that moved the start, which the following shift moves back *)
DisplacementInversesWitness ==
    /\ call.op = "prepend"
    /\ call.res.ok
    /\ call.args[1] # seconds(0)
    /\ s1 # call.self
    /\ shift(s1, call.args[1]).self = call.self

(* C29: the two pieces (l, r) of a successful s.split_off(at) rejoin:      *)
(* l.union(r) and l.symmetric_difference(r) both succeed and equal s,      *)
(* l.is_disjoint(r) is true, and l.intersection(r) fails with Error::Empty. *)
SplitPiecesRejoin ==
    (call.op = "split_off" /\ call.res.ok) =>
        LET s == call.self
            l == call.res.val[1]
            r == call.res.val[2]
        IN  /\ union(l, r) = Ok(<<s>>)
            /\ symmetric_difference(l, r) = Ok(<<s>>)
            /\ is_disjoint(l, r)
            /\ intersection(l, r) = Err("Empty")

(* a Span was split in two pieces of different widths *)
SplitPiecesRejoinWitness ==
    /\ call.op = "split_off"
    /\ call.res.ok
    /\ duration(call.res.val[1]) # duration(call.res.val[2])
    /\ union(call.res.val[1], call.res.val[2]) = Ok(<<call.self>>)

(***************************************************************************)
(* Properties of Timespan, under SpecTimespan                              *)
(***************************************************************************)
(* C25: Timespan::intersection never returns a zero-width interval: for    *)
(* two valid Timespans that touch at an endpoint in either operand order   *)
(* it returns Error::Empty, so every Ok result satisfies start < end.      *)
TimespanIntersectionNeverZeroWidth ==
    (call.op = "Timespan::intersection" /\ Valid(call.self) /\ Valid(call.other)) =>
        /\ Touching(call.self, call.other) => call.res = Err("Empty")
        /\ call.res.ok => Valid(call.res.val[1])

(***************************************************************************)
(* Properties of the default text form, under SpecFromStr                  *)
(***************************************************************************)
(* the texts of single points, as Display writes them: they hold no hyphen *)
PointTexts == {PointToString(p) : p \in Points}

(* C21: Span::from_str accepts a hyphen with optional white space around   *)
(* it: for point texts a < b without a hyphen, parsing "a-b" succeeds and  *)
(* yields the same Span as parsing "a - b".                                *)
HyphenWithoutWhitespace ==
    call.op = "from_str" =>
        \A a \in PointTexts, b \in PointTexts :
            (/\ PointFromStr(a).val \prec PointFromStr(b).val
             /\ call.args[1] = a \o <<"-">> \o b) =>
                /\ call.res.ok
                /\ call.res = from_str(a \o Separator \o b)

(* C22: every point of Points is parsed back from the text that Display    *)
(* writes for it, fractions of a second and the leap second included; and  *)
(* for every valid Span i of such points, Span::from_str applied to the    *)
(* default display string of i ("{start} - {end}") succeeds and returns a  *)
(* Span equal to i.                                                        *)
DefaultRoundTrip ==
    /\ \A p \in Points : PointFromStr(PointToString(p)) = [ok |-> TRUE, val |-> p]
    /\ call.op = "to_string" =>
          call.args[1] = PointToString(call.self.start) \o <<" ", "-", " ">>
                            \o PointToString(call.self.end)
    /\ (call.op = "from_str" /\ call.self # NoSpan) =>
          /\ call.args[1] = to_string(call.self)
          /\ call.res = Ok(<<call.self>>)
          /\ s2 = call.self

(* the text written for the Span from 10:30:00.5 to the leap second        *)
(* 23:59:60, "10:30:00.500 - 23:59:60", was parsed back to that Span       *)
DefaultRoundTripWitness ==
    /\ call.op = "from_str"
    /\ call.self = Span(NaiveTime(37800, 500000000), NaiveTime(86399, NANOS_PER_SEC))
    /\ call.args[1] = to_string(call.self)
    /\ Len(call.args[1]) = 23
    /\ call.res = Ok(<<call.self>>)

(***************************************************************************)
(* Properties of formatting, under SpecFormat                              *)
(***************************************************************************)
(* the start and the end of the call's Span under the call's specifiers;   *)
(* the template is call.args[1] before the rendered text is parsed         *)
CallStartText == PointFormat(call.self.start, call.args[Len(call.args) - 1])

CallEndText == PointFormat(call.self.end, call.args[Len(call.args)])

(* C23: Span::format always returns a DelayedFormat, holding the Span, the *)
(* template and the specifiers, without rendering or failing; a specifier  *)
(* that cannot be rendered for the point type gives a formatting error     *)
(* only when the DelayedFormat is rendered, and then nothing is written.   *)
FormatDeferred ==
    /\ call.op = "format" =>
          /\ call.res.ok
          /\ call.res.ret = [span |-> s1, fmt |-> call.args[1],
                             start |-> call.args[2], end |-> call.args[3]]
    /\ call.op = "fmt" =>
          /\ call.res.ok <=> (CallStartText.ok /\ CallEndText.ok)
          /\ ~call.res.ok => (call.res.err = "fmt::Error" /\ call.res.ret = <<>>)

(* rendering failed on the end specifier after the start was rendered, and *)
(* nothing was written                                                     *)
FormatDeferredWitness ==
    /\ call.op = "fmt"
    /\ ~call.res.ok
    /\ call.res.ret = <<>>
    /\ CallStartText.ok
    /\ CallStartText.out # <<>>
    /\ Has(call.args[1], StartToken)
    /\ ~CallEndText.ok

(* the template with each placeholder token replaced by its text, all      *)
(* other template text kept; no two tokens of a template overlap           *)
Substituted(fmt, st, en) ==
    Flatten([i \in 1 .. Len(fmt) |->
                IF PrefixAt(fmt, i, StartToken)
                THEN st
                ELSE IF PrefixAt(fmt, i, EndToken)
                THEN en
                ELSE IF \E j \in 1 .. Len(StartToken) - 1 :
                            \/ PrefixAt(fmt, i - j, StartToken)
                            \/ j < Len(EndToken) /\ PrefixAt(fmt, i - j, EndToken)
                THEN <<>>
                ELSE <<fmt[i]>>],
            1, Len(fmt))

(* C24: rendering a DelayedFormat yields the template with {start}         *)
(* replaced by the start point under the start specifier and {end} by the  *)
(* end point under the end specifier, all other template text kept; a      *)
(* template that lacks a placeholder still renders.                        *)
RenderSubstitutesPlaceholders ==
    call.op = "fmt" =>
        /\ (CallStartText.ok /\ CallEndText.ok) => call.res.ok
        /\ call.res.ok =>
              call.res.ret = Substituted(call.args[1], CallStartText.out, CallEndText.out)

(* a rendered text was parsed back, with a template that holds each        *)
(* placeholder once and specifiers that round-trip its points              *)
RenderedParsed ==
    /\ call.op = "parse_from_str"
    /\ call.self # NoSpan
    /\ Count(call.args[2], StartToken) = 1
    /\ Count(call.args[2], EndToken) = 1
    /\ RoundTrips(call.args[3], call.self.start)
    /\ RoundTrips(call.args[4], call.self.end)

(* the template text before the first placeholder, between the two, and    *)
(* after the second                                                        *)
TemplateText(fmt) ==
    LET i == Place(fmt, StartToken)
        j == Place(fmt, EndToken)
    IN  IF i < j
        THEN [before |-> SubSeq(fmt, 1, i - 1),
              between |-> SubSeq(fmt, i + Len(StartToken), j - 1),
              after |-> SubSeq(fmt, j + Len(EndToken), Len(fmt))]
        ELSE [before |-> SubSeq(fmt, 1, j - 1),
              between |-> SubSeq(fmt, j + Len(EndToken), i - 1),
              after |-> SubSeq(fmt, i + Len(StartToken), Len(fmt))]

(* The text s, written as the template's text around two point texts of    *)
(* which the first is first, can be read with a longer first point text:   *)
(* the text between the placeholders occurs again at a later place, on the *)
(* line the first point text begins in, and the text after the second      *)
(* placeholder follows it on its line.                                     *)
LongerFirstText(s, fmt, first) ==
    LET t == TemplateText(fmt)
        from == Len(t.before) + 1
    IN  \E k \in from + Len(first) + 1 .. Len(s) + 1 :
            /\ PrefixAt(s, k, t.between)
            /\ "\n" \notin Chars(SubSeq(s, from, k - 1))
            /\ \E m \in k + Len(t.between) .. Len(s) + 1 :
                   /\ PrefixAt(s, m, t.after)
                   /\ "\n" \notin Chars(SubSeq(s, k + Len(t.between), m - 1))

(* C30 as stated: for every valid Span i and every template with {start}   *)
(* and {end} exactly once each, in either order, and specifiers that       *)
(* round-trip a point, parse_from_str of the rendered text of              *)
(* i.format(template, sf, ef) succeeds and returns i.                      *)
TemplateRoundTrip ==
    RenderedParsed => call.res = Ok(<<call.self>>)

(* C30, amended: the same, for templates whose pattern Regex::new          *)
(* compiles, provided that the rendered text is the template with each     *)
(* placeholder replaced by its point text (the start text brings in no     *)
(* {end}), that the two point texts hold no line feed, and that the text   *)
(* between the two placeholders is not empty and does not occur again      *)
(* later in the rendered text in a place where the text could be split as  *)
(* well (on the line the first point text begins in, and with the          *)
(* template's text after the second placeholder following on its line).    *)
TemplateRoundTripSeparated ==
    (/\ RenderedParsed
     /\ TemplateRegex(call.args[2]).ok
     /\ call.args[1] = Substituted(call.args[2], CallStartText.out, CallEndText.out)
     /\ "\n" \notin Chars(CallStartText.out) \cup Chars(CallEndText.out)
     /\ TemplateText(call.args[2]).between # <<>>
     /\ ~LongerFirstText(call.args[1], call.args[2],
                         IF Place(call.args[2], StartToken) < Place(call.args[2], EndToken)
                         THEN CallStartText.out
                         ELSE CallEndText.out)) =>
        /\ call.res = Ok(<<call.self>>)
        /\ s2 = call.self

(* "{end} - {start}" was rendered with the start as hh.mm and the end in   *)
(* the hours of the half day, as "01.30 pm - 01.00", and parsed back: the  *)
(* text between the placeholders holds characters of the point texts       *)
TemplateRoundTripSeparatedWitness ==
    /\ RenderedParsed
    /\ call.args[2] = EndToken \o Separator \o StartToken
    /\ call.args[3] = <<"%", "H", ".", "%", "M">>
    /\ call.args[4] = <<"%", "I", ".", "%", "M", " ", "%", "P">>
    /\ call.args[1] = <<"0", "1", ".", "3", "0", " ", "p", "m", " ", "-", " ",
                        "0", "1", ".", "0", "0">>
    /\ call.self = Span(from_hms(1, 0, 0), from_hms(13, 30, 0))
    /\ call.res = Ok(<<call.self>>)

=============================================================================
